---------------------------- MODULE Spec2Model ----------------------------
(***************************************************************************)
(* Model of the almost-degenerate triangle repair of                       *)
(* Polygon_mesh_processing/remove_degeneracies.h                           *)
(* (remove_almost_degenerate_faces and its helpers), under Spec, and of    *)
(* the normal orientation of Point_set_processing_3/mst_orient_normals.h,  *)
(* under OrientSpec, further down.                                         *)
(*                                                                         *)
(* The triangle mesh is a halfedge data structure.  Edge e owns the two    *)
(* halfedges 2e (= halfedge(e)) and 2e+1 (= its opposite).  A mesh is a    *)
(* record of four maps: target, face and next on the halfedges that exist, *)
(* and point on the vertices.  The null halfedge and the null face are -1. *)
(* Coordinates are integers, one unit being one tenth.                     *)
(***************************************************************************)
EXTENDS Integers, Sequences, FiniteSets, TLC

null_halfedge == 0 - 1
null_face == 0 - 1

\* thresholds of is_badly_shaped
needle_threshold == 4
\* cos(160 degrees)^2 = 0.8830 as the fraction cap_threshold_sq_num / cap_threshold_sq_den
cap_threshold_sq_num == 883
cap_threshold_sq_den == 1000
\* 0.2 in coordinate units (tenths)
collapse_threshold == 2

----------------------------------------------------------------------------
\* geometric kernel

Sub(p, q) == <<p[1] - q[1], p[2] - q[2], p[3] - q[3]>>

Dot(a, b) == a[1] * b[1] + a[2] * b[2] + a[3] * b[3]

SqNorm(a) == Dot(a, a)

midpoint(p, q) == <<(p[1] + q[1]) \div 2, (p[2] + q[2]) \div 2, (p[3] + q[3]) \div 2>>

----------------------------------------------------------------------------
\* halfedge graph accessors

Halfedges(m) == DOMAIN m.target

opposite(h) == IF h % 2 = 0 THEN h + 1 ELSE h - 1

edge(h) == h \div 2

halfedge(e) == 2 * e

target(m, h) == m.target[h]

source(m, h) == m.target[opposite(h)]

next(m, h) == m.next[h]

prev(m, h) == CHOOSE g \in Halfedges(m) : m.next[g] = h

face(m, h) == m.face[h]

is_border(m, h) == m.face[h] = null_face

is_border_edge(m, e) == is_border(m, halfedge(e)) \/ is_border(m, opposite(halfedge(e)))

edges(m) == {edge(h) : h \in Halfedges(m)}

faces(m) == {m.face[h] : h \in Halfedges(m)} \ {null_face}

vertices(m) == {m.target[h] : h \in Halfedges(m)}

halfedges_around_face(m, f) == {h \in Halfedges(m) : m.face[h] = f}

\* halfedge(u, v, tmesh).second: is there a halfedge from u to v
halfedge_exists(m, u, v) == \E h \in Halfedges(m) : source(m, h) = u /\ target(m, h) = v

is_border_vertex(m, v) == \E h \in Halfedges(m) : target(m, h) = v /\ is_border(m, h)

MinOf(S) == CHOOSE x \in S : \A y \in S : x <= y

----------------------------------------------------------------------------
\* shape predicates

squared_edge_length(m, h) == SqNorm(Sub(m.point[target(m, h)], m.point[source(m, h)]))

\* the test of the needle's length that every length passes
edge_length_le_any_threshold(m, h) == TRUE

\* edge_length(h) <= collapse_threshold, on squares
edge_length_le_collapse_threshold(m, h) ==
  squared_edge_length(m, h) <= collapse_threshold * collapse_threshold

\* the shortest halfedge of f when longest / shortest > threshold, else null
is_needle_triangle_face(m, f, threshold) ==
  LET hs == halfedges_around_face(m, f)
      mn == MinOf({squared_edge_length(m, h) : h \in hs})
      mx == 0 - MinOf({0 - squared_edge_length(m, h) : h \in hs})
      min_h == MinOf({h \in hs : squared_edge_length(m, h) = mn})
  IN IF mx > threshold * threshold * mn THEN min_h ELSE null_halfedge

\* the cosine of the angle at the vertex opposite to h is below cos(160 degrees)
angle_opposite_is_cap(m, h) ==
  LET apex == m.point[target(m, next(m, h))]
      a == Sub(m.point[source(m, h)], apex)
      b == Sub(m.point[target(m, h)], apex)
      d == Dot(a, b)
  IN d < 0 /\ d * d * cap_threshold_sq_den > cap_threshold_sq_num * SqNorm(a) * SqNorm(b)

\* the halfedge opposite to an angle over 160 degrees, else null
is_cap_triangle_face(m, f) ==
  LET hs == {h \in halfedges_around_face(m, f) : angle_opposite_is_cap(m, h)}
  IN IF hs = {} THEN null_halfedge ELSE MinOf(hs)

\* is_badly_shaped without the test of the needle's length against collapse_threshold
is_badly_shaped_any_length(m, f) ==
  LET res == is_needle_triangle_face(m, f, needle_threshold)
  IN IF res # null_halfedge
     THEN <<res, null_halfedge>>
     ELSE LET cap == is_cap_triangle_face(m, f)
          IN IF cap # null_halfedge
             THEN <<null_halfedge, cap>>
             ELSE <<null_halfedge, null_halfedge>>

\* <<needle halfedge, cap halfedge>>, at most one of them not null
is_badly_shaped(m, f) ==
  LET res == is_needle_triangle_face(m, f, needle_threshold)
  IN IF res # null_halfedge
     THEN IF edge_length_le_collapse_threshold(m, res)
          THEN <<res, null_halfedge>>
          ELSE <<null_halfedge, null_halfedge>>
     ELSE LET cap == is_cap_triangle_face(m, f)
          IN IF cap # null_halfedge
             THEN <<null_halfedge, cap>>
             ELSE <<null_halfedge, null_halfedge>>

\* the sets <<edges_to_collapse, edges_to_flip>> after add_if_badly_shaped(f)
add_if_badly_shaped(m, f, sets) ==
  LET res == is_badly_shaped(m, f)
  IN IF res[1] # null_halfedge
     THEN <<sets[1] \cup {edge(res[1])}, sets[2]>>
     ELSE IF res[2] # null_halfedge
          THEN <<sets[1], sets[2] \cup {edge(res[2])}>>
          ELSE sets

----------------------------------------------------------------------------
\* Euler operations

\* number of edges incident to v
degree(m, v) == Cardinality({h \in Halfedges(m) : target(m, h) = v})

\* the connected component of h is a tetrahedron
is_tetrahedron(m, h) ==
  LET vs == {source(m, h), target(m, h), target(m, next(m, h)),
             target(m, next(m, opposite(h)))}
  IN /\ Cardinality(vs) = 4
     /\ \A v \in vs : degree(m, v) = 3 /\ ~is_border_vertex(m, v)
     /\ \A u \in vs : \A v \in vs \ {u} : halfedge_exists(m, u, v)

\* every vertex adjacent to both ends of e is the apex of a face of e, and
\* e is not an edge of a hole triangle, not an interior edge between two border
\* vertices, not an edge of a tetrahedron or of a two-face volume
does_satisfy_link_condition(m, e) ==
  LET v0_v1 == halfedge(e)
      v1_v0 == opposite(v0_v1)
      v0 == source(m, v0_v1)
      v1 == target(m, v0_v1)
      vL == target(m, next(m, v0_v1))
      vR == target(m, next(m, v1_v0))
  IN /\ \A v0_k \in Halfedges(m) :
          (source(m, v0_k) = v0 /\ v0_k # v0_v1 /\ halfedge_exists(m, target(m, v0_k), v1))
            => \/ (vL = target(m, v0_k) /\ ~is_border(m, v0_v1))
               \/ (vR = target(m, v0_k) /\ ~is_border(m, v1_v0))
     /\ ~(/\ ~is_border(m, v0_v1)
          /\ is_border(m, opposite(next(m, v0_v1)))
          /\ is_border(m, opposite(prev(m, v0_v1))))
     /\ ~(/\ ~is_border(m, v1_v0)
          /\ is_border(m, opposite(next(m, v1_v0)))
          /\ is_border(m, opposite(prev(m, v1_v0))))
     /\ IF is_border(m, v0_v1)
        THEN next(m, next(m, next(m, v0_v1))) # v0_v1
        ELSE IF is_border(m, v1_v0)
             THEN next(m, next(m, next(m, v1_v0))) # v1_v0
             ELSE /\ ~(is_border_vertex(m, v0) /\ is_border_vertex(m, v1))
                  /\ ~is_tetrahedron(m, v0_v1)
                  /\ ~(/\ next(m, v0_v1) = opposite(prev(m, v1_v0))
                       /\ prev(m, v0_v1) = opposite(next(m, v1_v0)))

\* collapse of e, h = halfedge(e): source(h) is merged into target(h); e goes,
\* and for each non-border halfedge g of e the face of g and the edge of
\* prev(g) go, next(g) taking the place of opposite(prev(g))
collapse_edge(m, e) ==
  LET pq == halfedge(e)
      qp == opposite(pq)
      p == source(m, pq)
      q == target(m, pq)
      top == ~is_border(m, pq)
      bot == ~is_border(m, qp)
      qt == next(m, pq)
      pt == opposite(prev(m, pq))
      pb == next(m, qp)
      qb == opposite(prev(m, qp))
      removed == {pq, qp}
                 \cup (IF top THEN {pt, opposite(pt)} ELSE {})
                 \cup (IF bot THEN {qb, opposite(qb)} ELSE {})
      kept == Halfedges(m) \ removed
      Old(g) == IF top /\ g = qt THEN pt ELSE IF bot /\ g = pb THEN qb ELSE g
      Rep(x) == IF top /\ x = pt THEN qt ELSE IF bot /\ x = qb THEN pb ELSE x
      Resolve(x) == IF x = pq \/ x = qp THEN Rep(m.next[x]) ELSE Rep(x)
  IN [target |-> [g \in kept |-> IF m.target[g] = p THEN q ELSE m.target[g]],
      face   |-> [g \in kept |-> m.face[Old(g)]],
      next   |-> [g \in kept |-> Resolve(m.next[Old(g)])],
      point  |-> m.point]

\* flip of the edge of h: it then joins the two apexes of its former faces
flip_edge(m, h) ==
  LET nh == next(m, h)
      nnh == next(m, nh)
      oh == opposite(h)
      noh == next(m, oh)
      nnoh == next(m, noh)
      s2 == target(m, nh)
      t2 == target(m, noh)
      fh == face(m, h)
      foh == face(m, oh)
  IN [target |-> [m.target EXCEPT ![h] = s2, ![oh] = t2],
      face   |-> [m.face EXCEPT ![noh] = fh, ![nh] = foh],
      next   |-> [m.next EXCEPT ![h] = nnh, ![nnh] = noh, ![noh] = h,
                                ![oh] = nnoh, ![nnoh] = nh, ![nh] = oh],
      point  |-> m.point]

\* removal of an edge whose two halfedges are border: the border cycles are
\* spliced at both ends
remove_border_edge(m, e) ==
  LET g == halfedge(e)
      og == opposite(g)
      kept == Halfedges(m) \ {g, og}
      Skip(x) == IF x = g THEN (IF m.next[og] = g THEN m.next[g] ELSE m.next[og])
                 ELSE IF x = og THEN (IF m.next[g] = og THEN m.next[og] ELSE m.next[g])
                 ELSE x
  IN [target |-> [x \in kept |-> m.target[x]],
      face   |-> [x \in kept |-> m.face[x]],
      next   |-> [x \in kept |-> Skip(m.next[x])],
      point  |-> m.point]

RECURSIVE remove_border_edges(_, _)
remove_border_edges(m, es) ==
  IF es = {} THEN m
  ELSE LET e == MinOf(es) IN remove_border_edges(remove_border_edge(m, e), es \ {e})

\* removal of the face of h: its halfedges become border, and those whose
\* opposite was border already are removed with their edge
remove_face(m, h) ==
  LET hs == halfedges_around_face(m, face(m, h))
      gone == {edge(g) : g \in {x \in hs : is_border(m, opposite(x))}}
      opened == [m EXCEPT !.face = [x \in Halfedges(m) |->
                                      IF x \in hs THEN null_face ELSE m.face[x]]]
  IN remove_border_edges(opened, gone)

----------------------------------------------------------------------------
\* mesh validity

\* next, target and face agree: next is a permutation that stays in the face and
\* runs from target to source, and every face is a triangle
is_valid_triangle_mesh(m) ==
  /\ \A h \in Halfedges(m) :
       /\ opposite(h) \in Halfedges(m)
       /\ m.next[h] \in Halfedges(m)
       /\ m.face[m.next[h]] = m.face[h]
       /\ source(m, m.next[h]) = m.target[h]
       /\ source(m, h) # m.target[h]
       /\ ~(is_border(m, h) /\ is_border(m, opposite(h)))
       /\ (~is_border(m, h) => m.next[m.next[m.next[h]]] = h)
  /\ \A g, h \in Halfedges(m) : m.next[g] = m.next[h] => g = h

\* the halfedges into target(g) met when turning around it from g
RECURSIVE halfedges_around_target(_, _, _)
halfedges_around_target(m, g, seen) ==
  IF g \in seen THEN seen
  ELSE halfedges_around_target(m, opposite(m.next[g]), seen \cup {g})

\* the faces around every vertex form one umbrella, closed or with one border gap
has_manifold_vertices(m) ==
  \A g \in Halfedges(m) :
    /\ halfedges_around_target(m, g, {}) = {h \in Halfedges(m) : m.target[h] = m.target[g]}
    /\ Cardinality({h \in Halfedges(m) : m.target[h] = m.target[g] /\ is_border(m, h)}) <= 1

\* no two halfedges run from the same vertex to the same vertex
has_no_duplicate_edge(m) ==
  \A g, h \in Halfedges(m) :
    (source(m, g) = source(m, h) /\ m.target[g] = m.target[h]) => g = h

\* an edge without border halfedge lies between two different faces
interior_edges_have_two_faces(m) ==
  \A h \in Halfedges(m) :
    (~is_border(m, h) /\ ~is_border(m, opposite(h))) => m.face[h] # m.face[opposite(h)]

is_manifold(m) ==
  /\ is_valid_triangle_mesh(m)
  /\ has_manifold_vertices(m)
  /\ has_no_duplicate_edge(m)
  /\ interior_edges_have_two_faces(m)

\* the faces that is_badly_shaped reports: needles with a short edge, and caps
bad_faces(m) == {f \in faces(m) : is_badly_shaped(m, f) # <<null_halfedge, null_halfedge>>}

----------------------------------------------------------------------------
\* input meshes

\* the halfedge structure of the triangle mesh with vertex positions P, edges
\* E (edge i-1 is E[i], its halfedge running from E[i][1] to E[i][2]) and
\* faces F (face i is the vertex triple F[i], counterclockwise)
MakeMesh(P, E, F) ==
  LET H == 0 .. (2 * Len(E) - 1)
      Tgt(h) == IF h % 2 = 0 THEN E[h \div 2 + 1][2] ELSE E[h \div 2 + 1][1]
      Src(h) == IF h % 2 = 0 THEN E[h \div 2 + 1][1] ELSE E[h \div 2 + 1][2]
      InFace(h, f) == \E k \in 1 .. 3 : F[f][k] = Src(h) /\ F[f][(k % 3) + 1] = Tgt(h)
      Fc(h) == IF \E f \in 1 .. Len(F) : InFace(h, f)
               THEN CHOOSE f \in 1 .. Len(F) : InFace(h, f)
               ELSE null_face
      Nx(h) == CHOOSE g \in H : Src(g) = Tgt(h) /\ Fc(g) = Fc(h)
                                /\ (Fc(h) = null_face => g # opposite(h) \/
                                      ~\E x \in H \ {opposite(h)} : Src(x) = Tgt(h) /\ Fc(x) = null_face)
  IN [target |-> [h \in H |-> Tgt(h)],
      face   |-> [h \in H |-> Fc(h)],
      next   |-> [h \in H |-> Nx(h)],
      point  |-> P]

\* bounds of the model
MaxCalls == 2
MaxIter == 4
MaxOps == 3

\* vertex positions, in tenths
P_quad_needle == <<<<0, 0, 0>>, <<20, 0, 0>>, <<10, 1, 0>>, <<10, 0 - 1, 0>>>>
P_quad_good == <<<<0, 0, 0>>, <<20, 0, 0>>, <<10, 1, 0>>, <<10, 0 - 8, 0>>>>
E_quad == <<<<1, 2>>, <<2, 3>>, <<3, 1>>, <<1, 4>>, <<4, 2>>>>
F_quad == <<<<1, 2, 3>>, <<2, 1, 4>>>>

\* one triangle that is a needle on the edge 3-1, longer than collapse_threshold,
\* and has an angle over 160 degrees at vertex 3
P_long_needle_cap == <<<<0, 0, 0>>, <<30, 0, 0>>, <<4, 1, 0>>>>
E_triangle == <<<<1, 2>>, <<2, 3>>, <<3, 1>>>>
F_triangle == <<<<1, 2, 3>>>>

\* vertex 1 inside the ring 2, 3, 4, 5 and close to vertex 2
P_fan == <<<<2, 0, 0>>, <<0, 0, 0>>, <<4, 0 - 9, 0>>, <<12, 0, 0>>, <<4, 9, 0>>>>
P_fan_stale == <<<<2, 0, 0>>, <<0, 0, 0>>, <<1, 0 - 3, 0>>, <<12, 0, 0>>, <<4, 9, 0>>>>
\* the same fan with vertex 4 close to the edge 1-3: the face 1,3,4 is a cap on
\* 1-3, an edge next to the needle edge 1-2
P_fan_cap == <<<<2, 0, 0>>, <<0, 0, 0>>, <<4, 0 - 9, 0>>, <<3, 0 - 4, 0>>, <<4, 9, 0>>>>
\* a fan with needles on the edges 1-2 and 1-4 and a cap 1,3,4 on the edge 1-3,
\* which lies between them
P_fan_between == <<<<0, 0, 0>>, <<0 - 1, 0, 0>>, <<3, 0 - 4, 0>>, <<1, 0 - 1, 0>>, <<3, 6, 0>>>>
E_fan == <<<<1, 2>>, <<1, 3>>, <<1, 4>>, <<1, 5>>, <<2, 3>>, <<3, 4>>, <<4, 5>>, <<5, 2>>>>
F_fan == <<<<1, 4, 5>>, <<1, 5, 2>>, <<1, 2, 3>>, <<1, 3, 4>>>>

\* two needles on a short interior edge between two border vertices
P_strip == <<<<0, 0, 0>>, <<2, 0, 0>>, <<1, 10, 0>>, <<1, 0 - 10, 0>>>>
\* the same, twice as large: the short edge is longer than collapse_threshold
P_strip_long == <<<<0, 0, 0>>, <<4, 0, 0>>, <<2, 20, 0>>, <<2, 0 - 20, 0>>>>

\* two caps side by side: face 1,2,3 on the interior edge 1-2, and face 2,1,4 on
\* the border edge 1-4
P_two_caps == <<<<0, 0, 0>>, <<20, 0, 0>>, <<10, 1, 0>>, <<29, 0 - 1, 0>>>>

\* four almost collinear points: three faces around vertex 2, or a flat tetrahedron
P_flat == <<<<0, 0, 0>>, <<20, 0, 0>>, <<10, 1, 0>>, <<29, 1, 0>>>>
E_flat == <<<<1, 2>>, <<2, 3>>, <<3, 1>>, <<1, 4>>, <<4, 2>>, <<4, 3>>>>
F_flat_open == <<<<1, 2, 3>>, <<2, 1, 4>>, <<2, 4, 3>>>>
F_flat_closed == <<<<1, 2, 3>>, <<2, 1, 4>>, <<2, 4, 3>>, <<1, 3, 4>>>>

\* vertex 1 of degree 3 inside 2, 3, 4, and a face 4, 3, 5 beyond the short edge 3-4
P_defer == <<<<9, 0, 0>>, <<7, 0, 0>>, <<0, 0 - 1, 0>>, <<0, 1, 0>>, <<0 - 2, 0, 0>>>>
E_defer == <<<<1, 2>>, <<1, 3>>, <<1, 4>>, <<2, 3>>, <<3, 4>>, <<4, 2>>, <<3, 5>>, <<5, 4>>>>
F_defer == <<<<1, 2, 3>>, <<1, 3, 4>>, <<1, 4, 2>>, <<4, 3, 5>>>>

\* a cap on the border whose apex 3 is a border vertex too
P_ear == <<<<0, 0, 0>>, <<20, 0, 0>>, <<10, 1, 0>>, <<16, 9, 0>>, <<4, 9, 0>>>>
E_ear == <<<<1, 2>>, <<2, 3>>, <<3, 1>>, <<2, 4>>, <<4, 3>>, <<3, 5>>, <<5, 1>>>>
F_ear == <<<<1, 2, 3>>, <<3, 2, 4>>, <<1, 3, 5>>>>

\* a needle whose short edge 1-2 lies on the border
P_border_needle == <<<<0, 0, 0>>, <<2, 0, 0>>, <<1, 10, 0>>, <<11, 6, 0>>>>
E_border_needle == <<<<1, 2>>, <<2, 3>>, <<3, 1>>, <<2, 4>>, <<4, 3>>>>
F_border_needle == <<<<1, 2, 3>>, <<3, 2, 4>>>>

\* five almost collinear points on a closed surface: apexes 1, 2 over the ring 3, 4, 5
P_bipyramid == <<<<0, 0, 0>>, <<30, 0, 0>>, <<9, 1, 0>>, <<16, 0, 1>>, <<22, 1, 1>>>>
\* the same with the apexes between the ring vertices 3 and 4
P_bipyramid_inside == <<<<9, 1, 0>>, <<16, 0, 1>>, <<0, 0, 0>>, <<22, 1, 1>>, <<30, 0, 0>>>>
E_bipyramid == <<<<3, 4>>, <<4, 5>>, <<5, 3>>, <<1, 3>>, <<1, 4>>, <<1, 5>>,
                 <<2, 3>>, <<2, 4>>, <<2, 5>>>>
F_bipyramid == <<<<1, 3, 4>>, <<1, 4, 5>>, <<1, 5, 3>>, <<2, 4, 3>>, <<2, 5, 4>>, <<2, 3, 5>>>>

\* a flat cap 1,2,3 on the interior edge 1-2 whose apex 3 is close to vertex 1:
\* the flip of 1-2 leaves the face 1,4,3 a needle on the edge 3-1
P_flip_needle == <<<<0, 0, 0>>, <<5, 0, 0>>, <<2, 0, 0>>, <<0, 0 - 9, 0>>>>

Reverse(E) == [i \in 1 .. Len(E) |-> <<E[i][2], E[i][1]>>]

InputShapes ==
  << <<P_quad_needle, E_quad, F_quad>>,
     <<P_quad_good, E_quad, F_quad>>,
     <<P_quad_needle, E_triangle, F_triangle>>,
     <<P_fan, E_fan, F_fan>>,
     <<P_fan_stale, E_fan, F_fan>>,
     <<P_strip, E_quad, F_quad>>,
     <<P_strip_long, E_quad, F_quad>>,
     <<P_two_caps, E_quad, F_quad>>,
     <<P_flat, E_flat, F_flat_open>>,
     <<P_flat, E_flat, F_flat_closed>>,
     <<P_defer, E_defer, F_defer>>,
     <<P_ear, E_ear, F_ear>>,
     <<P_border_needle, E_border_needle, F_border_needle>>,
     <<P_bipyramid, E_bipyramid, F_bipyramid>>,
     <<P_bipyramid_inside, E_bipyramid, F_bipyramid>>,
     <<P_flip_needle, E_quad, F_quad>>,
     <<P_fan_cap, E_fan, F_fan>>,
     <<P_long_needle_cap, E_triangle, F_triangle>>,
     <<P_fan_between, E_fan, F_fan>> >>

\* the meshes a call may be given: each shape, with halfedge(e) on either side of e
InputMeshes ==
  {MakeMesh(InputShapes[i][1], InputShapes[i][2], InputShapes[i][3]) : i \in 1 .. Len(InputShapes)}
  \cup
  {MakeMesh(InputShapes[i][1], Reverse(InputShapes[i][2]), InputShapes[i][3]) : i \in 1 .. Len(InputShapes)}

\* the face ranges a call may be given: all faces, or all but one
FaceRanges(m) == {faces(m)} \cup {faces(m) \ {f} : f \in faces(m)}

----------------------------------------------------------------------------
\* remove_almost_degenerate_faces(face_range, tmesh, np)

VARIABLES
  tmesh,                    \* the mesh
  face_range,               \* the faces given to the call
  edges_to_collapse,
  edges_to_flip,
  next_edges_to_collapse,
  next_edges_to_flip,
  something_was_done,
  pc,                       \* "start", "loop", "collapse", "flip", "done", "abort"
  result,                   \* "none" until the call returns, then "true" or "false"
  call,                     \* 1 for the first call, 2 for a call on its output
  input_mesh,               \* the mesh as it was given to the call
  iter,                     \* iterations of the outer loop begun in this call
  mesh_at_iteration_start,  \* the mesh when the current iteration began
  initial_sets,             \* <<edges_to_collapse, edges_to_flip>> as filled from face_range
  operations,               \* collapses, flips and face removals of this call
  undefined,                \* something undefined was evaluated in this call
  last,                     \* the last step of the loops: what was done to which edge
  tick,                     \* alternates with every step of the call
  np                        \* the named parameters given to the call

\* mst_orient_normals(first, beyond, point_pmap, normal_pmap, index_pmap, k, kernel)
VARIABLES
  points,                   \* the records of [first, beyond): id, point, normal
  k_neighbors,              \* k, the number of neighbors
  options,                  \* the options the caller supplies with the call
  step,                     \* where the call is, "idle" when there is no call
  source_point,             \* index of the record found by mst_find_source
  it,                       \* index of the record the edge loop of create_riemannian_graph is at
  neighbors,                \* what the neighbor search has returned for every record so far
  riemannian_graph,         \* weight of every edge <<i, j>> of the Riemannian graph
  predecessor,              \* predecessor map of prim_minimum_spanning_tree
  in_tree,                  \* the vertices prim_minimum_spanning_tree has reached
  mst_graph,                \* the directed edges <<s, t>> of the MST graph
  is_oriented,              \* the flag of every vertex of the MST graph
  queue,                    \* the queue of breadth_first_search
  examined,                 \* the MST edges the visitor was called on, in order
  first_unoriented_point,   \* the returned iterator, as a distance from first
  input_points,             \* the records as they were given to the call
  run,                      \* 1 for the first call, 2 for a call on its output
  first_run,                \* what the first call left: records, boundary, oriented ids
  negated_run               \* what the call has done on the same records with other signs

vars == <<tmesh, face_range, edges_to_collapse, edges_to_flip, next_edges_to_collapse,
          next_edges_to_flip, something_was_done, pc, result, call, input_mesh, iter,
          mesh_at_iteration_start, initial_sets, operations, undefined, last, tick, np,
          points, k_neighbors, options, step, source_point, it, neighbors,
          riemannian_graph, predecessor, in_tree, mst_graph, is_oriented, queue, examined,
          first_unoriented_point, input_points, run, first_run, negated_run>>

orient_vars == <<points, k_neighbors, options, step, source_point, it, neighbors,
                 riemannian_graph, predecessor, in_tree, mst_graph, is_oriented, queue,
                 examined, first_unoriented_point, input_points, run, first_run, negated_run>>

no_step == [op |-> "none", e |-> 0 - 1, border |-> FALSE]

\* the thresholds a caller may put in np: none at all, or one of the three
\* (ratio; squared cosine in thousandths, of an obtuse angle; length in tenths)
no_thresholds == [needle_ratio |-> 4, cap_cosine_sq_num |-> 883, collapse_length_max |-> 2,
                  given |-> FALSE]

NamedParameters ==
  {no_thresholds,
   [no_thresholds EXCEPT !.needle_ratio = 8, !.given = TRUE],
   [no_thresholds EXCEPT !.cap_cosine_sq_num = 250, !.given = TRUE],
   [no_thresholds EXCEPT !.collapse_length_max = 30, !.given = TRUE]}

\* there is no call of mst_orient_normals
no_orient_call ==
  /\ points = <<>>
  /\ k_neighbors = 0
  /\ options = [given |-> FALSE]
  /\ step = "idle"
  /\ source_point = 0 - 1
  /\ it = 0
  /\ neighbors = <<>>
  /\ riemannian_graph = <<>>
  /\ predecessor = <<>>
  /\ in_tree = {}
  /\ mst_graph = {}
  /\ is_oriented = <<>>
  /\ queue = <<>>
  /\ examined = <<>>
  /\ first_unoriented_point = 0 - 1
  /\ input_points = <<>>
  /\ run = 0
  /\ first_run = <<>>
  /\ negated_run = <<>>

Init ==
  /\ tmesh \in InputMeshes
  /\ face_range \in FaceRanges(tmesh)
  /\ edges_to_collapse = {}
  /\ edges_to_flip = {}
  /\ next_edges_to_collapse = {}
  /\ next_edges_to_flip = {}
  /\ something_was_done = FALSE
  /\ pc = "start"
  /\ result = "none"
  /\ call = 1
  /\ input_mesh = tmesh
  /\ iter = 0
  /\ mesh_at_iteration_start = tmesh
  /\ initial_sets = <<{}, {}>>
  /\ operations = 0
  /\ undefined = FALSE
  /\ last = no_step
  /\ tick = FALSE
  /\ np \in NamedParameters
  /\ no_orient_call

\* the two sets after add_if_badly_shaped on every face of fs
RECURSIVE add_all_badly_shaped(_, _, _)
add_all_badly_shaped(m, fs, sets) ==
  IF fs = {} THEN sets
  ELSE LET f == MinOf(fs)
       IN add_all_badly_shaped(m, fs \ {f}, add_if_badly_shaped(m, f, sets))

\* Initialize with a loop over all faces of the mesh
Initialize_on_all_faces ==
  /\ pc = "start"
  /\ LET sets == add_all_badly_shaped(tmesh, faces(tmesh), <<{}, {}>>)
     IN /\ edges_to_collapse' = sets[1]
        /\ edges_to_flip' = sets[2]
        /\ initial_sets' = sets
  /\ pc' = "loop"
  /\ UNCHANGED <<undefined, tmesh, face_range, next_edges_to_collapse,
                 next_edges_to_flip, something_was_done, result, call, input_mesh,
                 iter, mesh_at_iteration_start, operations, last>>
  /\ tick' = ~tick
  /\ UNCHANGED <<np, orient_vars>>

\* the loop over face_range that fills the two sets
Initialize ==
  /\ pc = "start"
  /\ LET sets == add_all_badly_shaped(tmesh, face_range, <<{}, {}>>)
     IN /\ edges_to_collapse' = sets[1]
        /\ edges_to_flip' = sets[2]
        /\ initial_sets' = sets
  /\ pc' = "loop"
  /\ UNCHANGED <<undefined, tmesh, face_range, next_edges_to_collapse,
                 next_edges_to_flip, something_was_done, result, call, input_mesh,
                 iter, mesh_at_iteration_start, operations, last>>
  /\ tick' = ~tick
  /\ UNCHANGED <<np, orient_vars>>

\* top of the outer loop, both sets empty
ReturnTrue ==
  /\ pc = "loop"
  /\ edges_to_collapse = {} /\ edges_to_flip = {}
  /\ something_was_done' = FALSE
  /\ result' = "true"
  /\ pc' = "done"
  /\ UNCHANGED <<initial_sets, undefined, tmesh, face_range, edges_to_collapse,
                 edges_to_flip, next_edges_to_collapse, next_edges_to_flip, call,
                 input_mesh, iter, mesh_at_iteration_start, operations, last>>
  /\ tick' = ~tick
  /\ UNCHANGED <<np, orient_vars>>

Bump(n, max) == IF n < max THEN n + 1 ELSE n

\* top of the outer loop, some set not empty
BeginIteration ==
  /\ pc = "loop"
  /\ ~(edges_to_collapse = {} /\ edges_to_flip = {})
  /\ something_was_done' = FALSE
  /\ next_edges_to_collapse' = {}
  /\ next_edges_to_flip' = {}
  /\ iter' = Bump(iter, MaxIter)
  /\ mesh_at_iteration_start' = tmesh
  /\ last' = no_step
  /\ pc' = "collapse"
  /\ UNCHANGED <<initial_sets, undefined, tmesh, face_range, edges_to_collapse,
                 edges_to_flip, result, call, input_mesh, operations>>
  /\ tick' = ~tick
  /\ UNCHANGED <<np, orient_vars>>

\* what is_badly_shaped may return on something that is not a face of the mesh
undefined_results(m) ==
  {<<null_halfedge, null_halfedge>>}
  \cup {<<g, null_halfedge>> : g \in Halfedges(m)}
  \cup {<<null_halfedge, g>> : g \in Halfedges(m)}

\* the possible values of is_badly_shaped(face(h, tmesh), tmesh, np): face(h) is
\* the null face when h is a border halfedge, and the call on it is undefined
badly_shaped_at(m, h) ==
  IF is_border(m, h) THEN undefined_results(m) ELSE {is_badly_shaped(m, face(m, h))}

\* the next sets <<next_edges_to_collapse, next_edges_to_flip>> after the fresh
\* result nc of a candidate that is no longer valid has been recorded
record_fresh_result(nc, sets) ==
  IF nc[1] # null_halfedge
  THEN <<sets[1] \cup {edge(nc[1])}, sets[2]>>
  ELSE IF nc[2] # null_halfedge
       THEN <<sets[1], sets[2] \cup {edge(nc[2])}>>
       ELSE sets

\* edges_removed_by_collapse that looks at halfedge(e) only, not at its opposite
edges_removed_by_collapse_one_side(m, e) ==
  {edge(prev(m, h)) : h \in {g \in {halfedge(e)} : ~is_border(m, g)}}

\* the edges prev(h) of the non-border halfedges h of e
edges_removed_by_collapse(m, e) ==
  {edge(prev(m, h)) : h \in {g \in {halfedge(e), opposite(halfedge(e))} : ~is_border(m, g)}}

\* the positions after a collapse of e that moves the vertex left to the midpoint of e
points_after_collapse_to_midpoint(m, e) ==
  [v \in DOMAIN m.point |->
     IF v = target(m, halfedge(e))
     THEN midpoint(m.point[source(m, halfedge(e))], m.point[target(m, halfedge(e))])
     ELSE m.point[v]]

\* the positions after the collapse of e: no vertex is moved
points_after_collapse(m, e) == m.point

\* CollapseDefer that drops e instead of keeping it for the next iteration
CollapseDefer_dropping_e ==
  /\ pc = "collapse"
  /\ \E e \in edges_to_collapse \cap edges(tmesh) :
       /\ ~does_satisfy_link_condition(tmesh, e)
       /\ edges_to_collapse' = edges_to_collapse \ {e}
       /\ last' = [op |-> "defer", e |-> e, border |-> is_border_edge(tmesh, e)]
  /\ UNCHANGED <<initial_sets, undefined, tmesh, face_range, edges_to_flip,
                 next_edges_to_collapse, next_edges_to_flip, something_was_done, pc,
                 result, call, input_mesh, iter, mesh_at_iteration_start, operations>>
  /\ tick' = ~tick
  /\ UNCHANGED <<np, orient_vars>>

\* needle loop, e fails the link condition: e goes to next_edges_to_collapse
CollapseDefer ==
  /\ pc = "collapse"
  /\ \E e \in edges_to_collapse \cap edges(tmesh) :
       /\ ~does_satisfy_link_condition(tmesh, e)
       /\ edges_to_collapse' = edges_to_collapse \ {e}
       /\ next_edges_to_collapse' = next_edges_to_collapse \cup {e}
       /\ last' = [op |-> "defer", e |-> e, border |-> is_border_edge(tmesh, e)]
  /\ UNCHANGED <<initial_sets, undefined, tmesh, face_range, edges_to_flip,
                 next_edges_to_flip, something_was_done, pc, result, call, input_mesh,
                 iter, mesh_at_iteration_start, operations>>
  /\ tick' = ~tick
  /\ UNCHANGED <<np, orient_vars>>

\* needle loop, e satisfies the link condition and halfedge(e) is a border
\* halfedge: the assertion fails
CollapseAssertionFails ==
  /\ pc = "collapse"
  /\ \E e \in edges_to_collapse \cap edges(tmesh) :
       /\ does_satisfy_link_condition(tmesh, e)
       /\ is_border(tmesh, halfedge(e))
       /\ edges_to_collapse' = edges_to_collapse \ {e}
       /\ last' = [op |-> "assertion", e |-> e, border |-> TRUE]
  /\ pc' = "abort"
  /\ UNCHANGED <<initial_sets, undefined, tmesh, face_range, edges_to_flip,
                 next_edges_to_collapse, next_edges_to_flip, something_was_done,
                 result, call, input_mesh, iter, mesh_at_iteration_start, operations>>
  /\ tick' = ~tick
  /\ UNCHANGED <<np, orient_vars>>

\* CollapseStale recording the fresh result into the sets of the running iteration
CollapseStale_into_current_sets ==
  /\ pc = "collapse"
  /\ \E e \in edges_to_collapse \cap edges(tmesh) :
       /\ does_satisfy_link_condition(tmesh, e)
       /\ \E nc \in badly_shaped_at(tmesh, halfedge(e)) :
            /\ nc[1] # halfedge(e)
            /\ LET sets == record_fresh_result(nc, <<edges_to_collapse \ {e}, edges_to_flip>>)
               IN /\ edges_to_collapse' = sets[1]
                  /\ edges_to_flip' = sets[2]
       /\ last' = [op |-> "stale needle", e |-> e, border |-> is_border_edge(tmesh, e)]
       /\ undefined' = (undefined \/ is_border(tmesh, halfedge(e)))
  /\ UNCHANGED <<initial_sets, tmesh, face_range, next_edges_to_collapse,
                 next_edges_to_flip, something_was_done,
                 pc, result, call, input_mesh, iter, mesh_at_iteration_start,
                 operations>>
  /\ tick' = ~tick
  /\ UNCHANGED <<np, orient_vars>>

\* needle loop, the face of halfedge(e) is no longer a needle on halfedge(e):
\* its fresh result is recorded and e is dropped
CollapseStale ==
  /\ pc = "collapse"
  /\ \E e \in edges_to_collapse \cap edges(tmesh) :
       /\ does_satisfy_link_condition(tmesh, e)
       /\ \E nc \in badly_shaped_at(tmesh, halfedge(e)) :
            /\ nc[1] # halfedge(e)
            /\ LET sets == record_fresh_result(nc, <<next_edges_to_collapse, next_edges_to_flip>>)
               IN /\ next_edges_to_collapse' = sets[1]
                  /\ next_edges_to_flip' = sets[2]
       /\ edges_to_collapse' = edges_to_collapse \ {e}
       /\ last' = [op |-> "stale needle", e |-> e, border |-> is_border_edge(tmesh, e)]
       /\ undefined' = (undefined \/ is_border(tmesh, halfedge(e)))
  /\ UNCHANGED <<initial_sets, tmesh, face_range, edges_to_flip, something_was_done,
                 pc, result, call, input_mesh, iter, mesh_at_iteration_start,
                 operations>>
  /\ tick' = ~tick
  /\ UNCHANGED <<np, orient_vars>>

\* needle loop, e is collapsed
CollapseEdge ==
  /\ pc = "collapse"
  /\ \E e \in edges_to_collapse \cap edges(tmesh) :
       /\ does_satisfy_link_condition(tmesh, e)
       /\ \E nc \in badly_shaped_at(tmesh, halfedge(e)) : nc[1] = halfedge(e)
       /\ LET gone == edges_removed_by_collapse(tmesh, e)
          IN /\ edges_to_flip' = (edges_to_flip \ gone) \ {e}
             /\ next_edges_to_collapse' = next_edges_to_collapse \ gone
             /\ edges_to_collapse' = (edges_to_collapse \ {e}) \ gone
       /\ tmesh' = [collapse_edge(tmesh, e) EXCEPT !.point = points_after_collapse(tmesh, e)]
       /\ last' = [op |-> "collapse", e |-> e, border |-> is_border_edge(tmesh, e)]
       /\ undefined' = (undefined \/ is_border(tmesh, halfedge(e)))
  /\ something_was_done' = TRUE
  /\ operations' = Bump(operations, MaxOps)
  /\ UNCHANGED <<initial_sets, face_range, next_edges_to_flip, pc, result, call,
                 input_mesh, iter, mesh_at_iteration_start>>
  /\ tick' = ~tick
  /\ UNCHANGED <<np, orient_vars>>

\* the needle loop ends
EndCollapseLoop ==
  /\ pc = "collapse"
  /\ edges_to_collapse = {}
  /\ pc' = "flip"
  /\ UNCHANGED <<initial_sets, undefined, tmesh, face_range, edges_to_collapse,
                 edges_to_flip, next_edges_to_collapse, next_edges_to_flip,
                 something_was_done, result, call, input_mesh, iter,
                 mesh_at_iteration_start, operations, last>>
  /\ tick' = ~tick
  /\ UNCHANGED <<np, orient_vars>>

\* record_after_flip without the two comparisons with the flipped edge e
record_after_flip_any_edge(m, e, k, sets) ==
  IF is_border(m, k) THEN sets
  ELSE LET nc == is_badly_shaped(m, face(m, k))
       IN IF nc[2] # null_halfedge
          THEN <<sets[1], sets[2] \cup {edge(nc[2])}>>
          ELSE IF nc[1] # null_halfedge
               THEN <<sets[1] \cup {edge(nc[1])}, sets[2]>>
               ELSE sets

\* the next sets <<next_edges_to_collapse, next_edges_to_flip>> after the face
\* of k, a halfedge of the flipped edge e, has been looked at
record_after_flip(m, e, k, sets) ==
  IF is_border(m, k) THEN sets
  ELSE LET nc == is_badly_shaped(m, face(m, k))
       IN IF nc[2] # null_halfedge /\ edge(nc[2]) # e
          THEN <<sets[1], sets[2] \cup {edge(nc[2])}>>
          ELSE IF nc[1] # null_halfedge /\ edge(nc[1]) = e
               THEN <<sets[1] \cup {e}, sets[2]>>
               ELSE sets

\* flip_is_valid without the look-up of the edge that the flip would create
flip_is_valid_without_lookup(m, h) == TRUE

\* the edge that a flip of the edge of h would create does not exist yet
flip_is_valid(m, h) ==
  ~halfedge_exists(m, target(m, next(m, h)), target(m, next(m, opposite(h))))

\* cap loop, the face of halfedge(e) is no longer a cap on halfedge(e): its
\* fresh result is recorded and e is dropped
FlipStale ==
  /\ pc = "flip"
  /\ \E e \in edges_to_flip \cap edges(tmesh) :
       /\ \E nc \in badly_shaped_at(tmesh, halfedge(e)) :
            /\ nc[2] # halfedge(e)
            /\ LET sets == record_fresh_result(nc, <<next_edges_to_collapse, next_edges_to_flip>>)
               IN /\ next_edges_to_collapse' = sets[1]
                  /\ next_edges_to_flip' = sets[2]
       /\ edges_to_flip' = edges_to_flip \ {e}
       /\ last' = [op |-> "stale cap", e |-> e, border |-> is_border_edge(tmesh, e)]
       /\ undefined' = (undefined \/ is_border(tmesh, halfedge(e)))
  /\ UNCHANGED <<initial_sets, tmesh, face_range, edges_to_collapse,
                 something_was_done, pc, result, call, input_mesh, iter,
                 mesh_at_iteration_start, operations>>
  /\ tick' = ~tick
  /\ UNCHANGED <<np, orient_vars>>

\* FlipRemoveFace that does not set something_was_done
FlipRemoveFace_without_progress ==
  /\ pc = "flip"
  /\ \E e \in edges_to_flip \cap edges(tmesh) :
       /\ \E nc \in badly_shaped_at(tmesh, halfedge(e)) : nc[2] = halfedge(e)
       /\ is_border_edge(tmesh, e)
       /\ LET h == IF is_border(tmesh, halfedge(e)) THEN opposite(halfedge(e)) ELSE halfedge(e)
          IN /\ edges_to_flip' = (edges_to_flip \ {e})
                                   \ {edge(prev(tmesh, h)), edge(next(tmesh, h))}
             /\ tmesh' = remove_face(tmesh, h)
       /\ last' = [op |-> "remove face", e |-> e, border |-> TRUE]
       /\ undefined' = (undefined \/ is_border(tmesh, halfedge(e)))
  /\ something_was_done' = something_was_done
  /\ operations' = Bump(operations, MaxOps)
  /\ UNCHANGED <<initial_sets, face_range, edges_to_collapse, next_edges_to_collapse,
                 next_edges_to_flip, pc, result, call, input_mesh, iter,
                 mesh_at_iteration_start>>
  /\ tick' = ~tick
  /\ UNCHANGED <<np, orient_vars>>

\* cap loop, e is a border edge: the face on its non-border side is removed
FlipRemoveFace ==
  /\ pc = "flip"
  /\ \E e \in edges_to_flip \cap edges(tmesh) :
       /\ \E nc \in badly_shaped_at(tmesh, halfedge(e)) : nc[2] = halfedge(e)
       /\ is_border_edge(tmesh, e)
       /\ LET h == IF is_border(tmesh, halfedge(e)) THEN opposite(halfedge(e)) ELSE halfedge(e)
          IN /\ edges_to_flip' = (edges_to_flip \ {e})
                                   \ {edge(prev(tmesh, h)), edge(next(tmesh, h))}
             /\ tmesh' = remove_face(tmesh, h)
       /\ last' = [op |-> "remove face", e |-> e, border |-> TRUE]
       /\ undefined' = (undefined \/ is_border(tmesh, halfedge(e)))
  /\ something_was_done' = TRUE
  /\ operations' = Bump(operations, MaxOps)
  /\ UNCHANGED <<initial_sets, face_range, edges_to_collapse, next_edges_to_collapse,
                 next_edges_to_flip, pc, result, call, input_mesh, iter,
                 mesh_at_iteration_start>>
  /\ tick' = ~tick
  /\ UNCHANGED <<np, orient_vars>>

\* cap loop, e is flipped and its two new faces are looked at
FlipEdge ==
  /\ pc = "flip"
  /\ \E e \in edges_to_flip \cap edges(tmesh) :
       LET h == halfedge(e)
           flipped == flip_edge(tmesh, h)
       IN /\ \E nc \in badly_shaped_at(tmesh, h) : nc[2] = h
          /\ ~is_border_edge(tmesh, e)
          /\ flip_is_valid(tmesh, h)
          /\ tmesh' = flipped
          /\ edges_to_flip' = (edges_to_flip \ {e})
                                \ {edge(prev(flipped, h)), edge(next(flipped, h)),
                                   edge(prev(flipped, opposite(h))),
                                   edge(next(flipped, opposite(h)))}
          /\ LET sets == record_after_flip(flipped, e, opposite(h),
                           record_after_flip(flipped, e, h,
                             <<next_edges_to_collapse, next_edges_to_flip>>))
             IN /\ next_edges_to_collapse' = sets[1]
                /\ next_edges_to_flip' = sets[2]
          /\ last' = [op |-> "flip", e |-> e, border |-> FALSE]
          /\ undefined' = (undefined \/ is_border(tmesh, halfedge(e)))
  /\ something_was_done' = TRUE
  /\ operations' = Bump(operations, MaxOps)
  /\ UNCHANGED <<initial_sets, face_range, edges_to_collapse, pc, result, call,
                 input_mesh, iter, mesh_at_iteration_start>>
  /\ tick' = ~tick
  /\ UNCHANGED <<np, orient_vars>>

\* FlipUnflippable that counts the edge it could not flip as something done
FlipUnflippable_counted_as_done ==
  /\ pc = "flip"
  /\ \E e \in edges_to_flip \cap edges(tmesh) :
       /\ \E nc \in badly_shaped_at(tmesh, halfedge(e)) : nc[2] = halfedge(e)
       /\ ~is_border_edge(tmesh, e)
       /\ ~flip_is_valid(tmesh, halfedge(e))
       /\ edges_to_flip' = edges_to_flip \ {e}
       /\ last' = [op |-> "unflippable", e |-> e, border |-> FALSE]
       /\ undefined' = (undefined \/ is_border(tmesh, halfedge(e)))
  /\ something_was_done' = TRUE
  /\ UNCHANGED <<initial_sets, tmesh, face_range, edges_to_collapse,
                 next_edges_to_collapse, next_edges_to_flip, pc, result, call,
                 input_mesh, iter, mesh_at_iteration_start, operations>>
  /\ tick' = ~tick
  /\ UNCHANGED <<np, orient_vars>>

\* cap loop, the edge that the flip of e would create exists already: e is dropped
FlipUnflippable ==
  /\ pc = "flip"
  /\ \E e \in edges_to_flip \cap edges(tmesh) :
       /\ \E nc \in badly_shaped_at(tmesh, halfedge(e)) : nc[2] = halfedge(e)
       /\ ~is_border_edge(tmesh, e)
       /\ ~flip_is_valid(tmesh, halfedge(e))
       /\ edges_to_flip' = edges_to_flip \ {e}
       /\ last' = [op |-> "unflippable", e |-> e, border |-> FALSE]
       /\ undefined' = (undefined \/ is_border(tmesh, halfedge(e)))
  /\ UNCHANGED <<initial_sets, tmesh, face_range, edges_to_collapse,
                 next_edges_to_collapse, next_edges_to_flip, something_was_done, pc,
                 result, call, input_mesh, iter, mesh_at_iteration_start, operations>>
  /\ tick' = ~tick
  /\ UNCHANGED <<np, orient_vars>>

\* a popped edge that the mesh no longer has: whatever is read through it is
\* undefined.  The run may be aborted, the edge may be kept for the next
\* iteration, or any result may be recorded for it
UseOfRemovedEdge ==
  /\ pc \in {"collapse", "flip"}
  /\ \E e \in (IF pc = "collapse" THEN edges_to_collapse ELSE edges_to_flip) \ edges(tmesh) :
       /\ edges_to_collapse' = (IF pc = "collapse" THEN edges_to_collapse \ {e}
                                ELSE edges_to_collapse)
       /\ edges_to_flip' = (IF pc = "flip" THEN edges_to_flip \ {e} ELSE edges_to_flip)
       /\ last' = [op |-> "removed edge", e |-> e, border |-> FALSE]
       /\ \/ /\ pc' = "abort"
             /\ UNCHANGED <<next_edges_to_collapse, next_edges_to_flip>>
          \/ /\ pc = "collapse"
             /\ pc' = pc
             /\ next_edges_to_collapse' = next_edges_to_collapse \cup {e}
             /\ UNCHANGED next_edges_to_flip
          \/ /\ pc' = pc
             /\ \E nc \in undefined_results(tmesh) :
                  LET sets == record_fresh_result(nc, <<next_edges_to_collapse, next_edges_to_flip>>)
                  IN /\ next_edges_to_collapse' = sets[1]
                     /\ next_edges_to_flip' = sets[2]
  /\ undefined' = TRUE
  /\ UNCHANGED <<initial_sets, tmesh, face_range, something_was_done, result, call,
                 input_mesh, iter, mesh_at_iteration_start, operations>>
  /\ tick' = ~tick
  /\ UNCHANGED <<np, orient_vars>>

\* EndIteration that goes on to the next iteration whether or not something was done
EndIteration_without_stall_test ==
  /\ pc = "flip"
  /\ edges_to_flip = {}
  /\ edges_to_collapse' = next_edges_to_collapse
  /\ next_edges_to_collapse' = edges_to_collapse
  /\ edges_to_flip' = next_edges_to_flip
  /\ next_edges_to_flip' = edges_to_flip
  /\ pc' = "loop"
  /\ UNCHANGED <<initial_sets, undefined, tmesh, face_range, something_was_done, call,
                 input_mesh, iter, mesh_at_iteration_start, operations, last, result>>
  /\ tick' = ~tick
  /\ UNCHANGED <<np, orient_vars>>

\* the cap loop ends: the sets are swapped, and the call returns false when
\* nothing was done in this iteration
EndIteration ==
  /\ pc = "flip"
  /\ edges_to_flip = {}
  /\ edges_to_collapse' = next_edges_to_collapse
  /\ next_edges_to_collapse' = edges_to_collapse
  /\ edges_to_flip' = next_edges_to_flip
  /\ next_edges_to_flip' = edges_to_flip
  /\ IF something_was_done
     THEN pc' = "loop" /\ result' = result
     ELSE pc' = "done" /\ result' = "false"
  /\ UNCHANGED <<initial_sets, undefined, tmesh, face_range, something_was_done, call,
                 input_mesh, iter, mesh_at_iteration_start, operations, last>>
  /\ tick' = ~tick
  /\ UNCHANGED <<np, orient_vars>>

\* the caller gives the mesh left by a call on all faces that returned true to
\* another call, again on all faces
CallAgain ==
  /\ pc = "done"
  /\ result = "true"
  /\ face_range = faces(input_mesh)
  /\ call < MaxCalls
  /\ call' = call + 1
  /\ face_range' = faces(tmesh)
  /\ input_mesh' = tmesh
  /\ edges_to_collapse' = {}
  /\ edges_to_flip' = {}
  /\ next_edges_to_collapse' = {}
  /\ next_edges_to_flip' = {}
  /\ something_was_done' = FALSE
  /\ pc' = "start"
  /\ result' = "none"
  /\ iter' = 0
  /\ mesh_at_iteration_start' = tmesh
  /\ initial_sets' = <<{}, {}>>
  /\ operations' = 0
  /\ undefined' = FALSE
  /\ last' = no_step
  /\ UNCHANGED tmesh
  /\ tick' = ~tick
  /\ UNCHANGED <<np, orient_vars>>

Next ==
  \/ Initialize
  \/ ReturnTrue
  \/ BeginIteration
  \/ CollapseDefer
  \/ CollapseAssertionFails
  \/ CollapseStale
  \/ CollapseEdge
  \/ EndCollapseLoop
  \/ FlipStale
  \/ FlipRemoveFace
  \/ FlipEdge
  \/ FlipUnflippable
  \/ UseOfRemovedEdge
  \/ EndIteration
  \/ CallAgain

Spec == Init /\ [][Next]_vars

\* a call that has not returned takes its next step
Advance == pc \notin {"done", "abort"} /\ tick' = ~tick

\* the call runs on: every step of Next changes tick, and one is taken as long
\* as the call has not returned
FairSpec == Spec /\ WF_tick(Advance)

-----------------------------------------------------------------------------
\* Properties of remove_almost_degenerate_faces

\* the call has run on every face of the mesh, evaluating nothing undefined
defined_call_on_all_faces == face_range = faces(input_mesh) /\ ~undefined

\* C1: when the call returns true, no face of the mesh is a needle whose
\* shortest edge is at most the collapse length, and no face is a cap.
C1_TrueMeansNoBadFace ==
  (pc = "done" /\ result = "true" /\ defined_call_on_all_faces) => bad_faces(tmesh) = {}

\* C2: when the call returns false, the last iteration changed nothing in the
\* mesh and at least one face is still a short needle or a cap.
C2_FalseMeansStalledWithBadFace ==
  (pc = "done" /\ result = "false" /\ ~undefined)
    => (tmesh = mesh_at_iteration_start /\ bad_faces(tmesh) # {})

\* C3: every call ends after finitely many iterations of the outer loop: a call
\* that has begun returns (or is aborted).
C3_CallTerminates == (pc = "start") ~> (pc \in {"done", "abort"})

\* a call has returned after several iterations and several operations on the mesh
C3_Witness == pc = "done" /\ iter >= 3 /\ operations >= 2 /\ ~undefined

\* C4: an iteration of the outer loop that does not end by returning false
\* leaves strictly fewer bad faces than the mesh had when the iteration began.
C4_IterationDecreasesBadFaces ==
  (pc = "loop" /\ iter > 0 /\ ~undefined)
    => Cardinality(bad_faces(tmesh)) < Cardinality(bad_faces(mesh_at_iteration_start))

\* C4, amended: an iteration of the outer loop that does not end by returning
\* false has changed the mesh by at least one collapse, flip or face removal,
\* and has not added a face; the number of bad faces need not have decreased.
C4_IterationChangesMesh ==
  (pc = "loop" /\ iter > 0)
    => /\ something_was_done
       /\ operations > 0
       /\ tmesh # mesh_at_iteration_start
       /\ Cardinality(faces(tmesh)) <= Cardinality(faces(mesh_at_iteration_start))

\* an iteration has ended without returning false and without fewer bad faces
C4_Witness ==
  /\ pc = "loop" /\ iter > 0 /\ ~undefined
  /\ last.op = "flip"
  /\ Cardinality(bad_faces(tmesh)) >= Cardinality(bad_faces(mesh_at_iteration_start))

\* C5: a second call on the mesh left by a call on all faces that returned true
\* returns true and performs no collapse, flip or face removal.
C5_SecondCallDoesNothing ==
  (pc = "done" /\ call > 1 /\ ~undefined) => (result = "true" /\ operations = 0)

\* C6: the mesh is manifold in every state of the call (an edge being
\* collapsed only when it satisfies the link condition, and flipped only when
\* no edge joins the two apexes already).
C6_MeshStaysManifold == ~undefined => is_manifold(tmesh)

\* C7: every edge given to collapse_edge is an interior edge, and the assertion
\* that halfedge(e) is not a border halfedge never fails.
C7_CollapsedEdgesAreInterior ==
  /\ (last.op = "collapse" /\ ~undefined) => ~last.border
  /\ last.op # "assertion"

\* C8: every vertex of the mesh has the position it had when the call began.
C8_PositionsUnchanged ==
  \A v \in vertices(tmesh) : tmesh.point[v] = input_mesh.point[v]

\* an edge has been collapsed: the vertex that is left is where it was
C8_Witness ==
  /\ last.op = "collapse" /\ ~undefined
  /\ Cardinality(vertices(tmesh)) < Cardinality(vertices(input_mesh))

\* the faces of face_range gave no cap, and only needles that fail the link condition
stall_case ==
  /\ pc # "start"
  /\ initial_sets[2] = {}
  /\ initial_sets[1] # {}
  /\ \A e \in initial_sets[1] : ~does_satisfy_link_condition(input_mesh, e)

\* C9: when the flip set is empty and every edge of the collapse set fails the
\* link condition, the mesh stays as it was, every such edge is put into the
\* next collapse set, and the call returns false at the end of its first iteration.
C9_StallDetection ==
  stall_case
    => /\ tmesh = input_mesh
       /\ operations = 0
       /\ iter <= 1
       /\ ~undefined
       /\ pc \in {"loop", "collapse", "flip", "done"}
       /\ pc = "loop" => iter = 0
       /\ pc = "collapse"
            => edges_to_collapse \cup next_edges_to_collapse = initial_sets[1]
       /\ pc = "flip" => next_edges_to_collapse = initial_sets[1]
       /\ pc = "done"
            => result = "false" /\ iter = 1 /\ edges_to_collapse = initial_sets[1]

\* the call has returned false after its first iteration, every candidate deferred
C9_Witness ==
  stall_case /\ pc = "done" /\ result = "false" /\ last.op = "defer"

\* no face of face_range is a needle whose shortest edge is at most
\* collapse_threshold, and none that is not a needle is a cap
nothing_classified ==
  \A f \in face_range \cap faces(input_mesh) :
    LET res == is_needle_triangle_face(input_mesh, f, needle_threshold)
    IN IF res # null_halfedge
       THEN ~edge_length_le_collapse_threshold(input_mesh, res)
       ELSE is_cap_triangle_face(input_mesh, f) = null_halfedge

\* C10: when no face of face_range is classified, both sets are empty after the
\* initialization and the call returns true without any operation on the mesh.
C10_NothingClassified ==
  nothing_classified
    => /\ pc # "start" => (edges_to_collapse = {} /\ edges_to_flip = {})
       /\ pc \in {"start", "loop", "done"}
       /\ tmesh = input_mesh
       /\ operations = 0
       /\ iter = 0
       /\ pc = "done" => result = "true"

\* the call has returned true on a range with a needle longer than the collapse length
C10_Witness ==
  /\ nothing_classified /\ pc = "done" /\ result = "true" /\ call = 1
  /\ \E f \in face_range :
       is_needle_triangle_face(input_mesh, f, needle_threshold) # null_halfedge

----------------------------------------------------------------------------
\* the thresholds of the options

\* the classification of f with the thresholds o
is_badly_shaped_with_thresholds(m, f, o) ==
  LET res == is_needle_triangle_face(m, f, o.needle_ratio)
      caps == {h \in halfedges_around_face(m, f) :
                 LET apex == m.point[target(m, next(m, h))]
                     a == Sub(m.point[source(m, h)], apex)
                     b == Sub(m.point[target(m, h)], apex)
                     d == Dot(a, b)
                 IN d < 0 /\ d * d * 1000 > o.cap_cosine_sq_num * SqNorm(a) * SqNorm(b)}
  IN IF res # null_halfedge
     THEN IF squared_edge_length(m, res) <= o.collapse_length_max * o.collapse_length_max
          THEN <<res, null_halfedge>>
          ELSE <<null_halfedge, null_halfedge>>
     ELSE IF caps # {}
          THEN <<null_halfedge, MinOf(caps)>>
          ELSE <<null_halfedge, null_halfedge>>

\* C11: the faces of face_range are classified with the thresholds given in np
\* (4, cos(160 degrees) and 0.2 when none is given): once the sets are filled,
\* they hold the edges of that classification.
C11_ClassifiedWithGivenThresholds ==
  pc # "start" =>
    /\ initial_sets[1] =
         {edge(is_badly_shaped_with_thresholds(input_mesh, f, np)[1]) :
            f \in {g \in face_range :
                     is_badly_shaped_with_thresholds(input_mesh, g, np)[1] # null_halfedge}}
    /\ initial_sets[2] =
         {edge(is_badly_shaped_with_thresholds(input_mesh, f, np)[2]) :
            f \in {g \in face_range :
                     is_badly_shaped_with_thresholds(input_mesh, g, np)[2] # null_halfedge}}

----------------------------------------------------------------------------
\* Model of the normal orientation of Point_set_processing_3/mst_orient_normals.h.
\*
\* A record of the range [first, beyond) has a point, a normal and an id that
\* tells the records apart.  An iterator is the index of its record, 0 for
\* first; the record of index i is points[i + 1].  Points have integer
\* coordinates and normals have coordinates in fifths: a unit normal has the
\* squared norm 25, and a product of two normals is in twenty-fifths.

Neg(n) == <<0 - n[1], 0 - n[2], 0 - n[3]>>

Abs(x) == IF x < 0 THEN 0 - x ELSE x

is_unit_normal(n) == SqNorm(n) = 25

\* the +Z axis
Z == <<0, 0, 5>>

Indices(pts) == 0 .. Len(pts) - 1

\* the two preconditions of mst_orient_normals
preconditions_hold_for_any_k(pts, kk) == Len(pts) # 0

preconditions_hold(pts, kk) == Len(pts) # 0 /\ kk >= 2

\* the loop of mst_find_source from position v on (positions count from 1)
RECURSIVE find_top_point_last(_, _, _)
RECURSIVE find_top_point(_, _, _)
find_top_point_last(pts, top_point, v) ==
  IF v > Len(pts) THEN top_point
  ELSE find_top_point_last(pts,
         IF pts[top_point].point[3] <= pts[v].point[3] THEN v ELSE top_point, v + 1)

find_top_point(pts, top_point, v) ==
  IF v > Len(pts) THEN top_point
  ELSE find_top_point(pts,
         IF pts[top_point].point[3] < pts[v].point[3] THEN v ELSE top_point, v + 1)

\* the normal of the top point as mst_find_source leaves it
orient_towards_Z_by_assignment(normal) == Z

orient_towards_Z(normal) == IF Dot(Z, normal) < 0 THEN Neg(normal) ELSE normal

\* mst_find_source: the index of the top point, and the records after the call
mst_find_source(pts) ==
  LET top == find_top_point(pts, 1, 2)
  IN [top_point |-> top - 1,
      points |-> [pts EXCEPT ![top].normal = orient_towards_Z(pts[top].normal)]]

\* what Neighbor_search(tree, query, n) may return for the record q: the n
\* nearest records, all of them when there are no more than n
Neighbor_search(pts, q, n) ==
  LET d(i) == SqNorm(Sub(pts[i + 1].point, pts[q + 1].point))
  IN IF Len(pts) <= n THEN {Indices(pts)}
     ELSE {S \in SUBSET Indices(pts) :
             /\ Cardinality(S) = n
             /\ \A i \in S : \A j \in Indices(pts) \ S : d(i) <= d(j)}

\* edge weight = 1 - normal1 * normal2, without the absolute value
edge_weight_signed(n1, n2) ==
  LET weight == 25 - Dot(n1, n2)
  IN IF weight < 0 THEN 0 ELSE weight

\* edge weight = 1 - | normal1 * normal2 |, not below 0, in twenty-fifths
edge_weight(n1, n2) ==
  LET weight == 25 - Abs(Dot(n1, n2))
  IN IF weight < 0 THEN 0 ELSE weight

\* the Riemannian graph after the edges of record i to the records of found
add_edges(g, pts, i, found) ==
  LET new == {<<i, j>> : j \in {n \in found : n > i}}
  IN [e \in DOMAIN g \cup new |->
        IF e \in new THEN edge_weight(pts[e[1] + 1].normal, pts[e[2] + 1].normal) ELSE g[e]]

\* the edges of g from a vertex that prim_minimum_spanning_tree has reached to
\* one it has not, as <<reached, not reached, weight>>
crossing_edges(g, tree) ==
  {<<e[1], e[2], g[e]>> : e \in {x \in DOMAIN g : x[1] \in tree /\ x[2] \notin tree}}
  \cup {<<e[2], e[1], g[e]>> : e \in {x \in DOMAIN g : x[2] \in tree /\ x[1] \notin tree}}

\* mst_edges without the test i != predecessor[i]
mst_edges_without_test(pred) == {<<pred[i], i>> : i \in DOMAIN pred}

\* the edges (predecessor[i], i) that create_mst_graph adds
mst_edges(pred) == {<<pred[i], i>> : i \in {j \in DOMAIN pred : pred[j] # j}}

\* the comparison with cos(m_angle_max) that every product passes
reaches_any_angle(normals_dot) == TRUE

\* std::abs(normals_dot) >= std::cos(m_angle_max), where m_angle_max is M_PI/2.:
\* the cosine of the double M_PI/2. is 6.1e-17, above 0 and below one twenty-fifth
reaches_cos_angle_max(normals_dot) == Abs(normals_dot) >= 1

\* the target normal after the visitor
orient_parallel_never(source_normal, target_normal) == target_normal

orient_parallel(source_normal, target_normal) ==
  IF Dot(source_normal, target_normal) < 0 THEN Neg(target_normal) ELSE target_normal

\* Propagate_normal_orientation::operator() on the edge (s, t): the records
\* and the flags after it
Propagate_normal_orientation_flag_only(st, s, t) ==
  IF st.is_oriented[t] THEN st
  ELSE [st EXCEPT !.is_oriented[t] = st.is_oriented[s]]

Propagate_normal_orientation(st, s, t) ==
  LET source_normal == st.points[s + 1].normal
      target_normal == st.points[t + 1].normal
      normals_dot == Dot(source_normal, target_normal)
  IN IF st.is_oriented[t] THEN st
     ELSE [points |-> [st.points EXCEPT
                         ![t + 1].normal = orient_parallel(source_normal, target_normal)],
           is_oriented |-> [st.is_oriented EXCEPT
                              ![t] = st.is_oriented[s] /\ reaches_cos_angle_max(normals_dot)]]

\* the out-edges of s in the order create_mst_graph has added them
RECURSIVE out_edges(_, _)
out_edges(g, s) ==
  LET ts == {e[2] : e \in {x \in g : x[1] = s}}
  IN IF ts = {} THEN <<>>
     ELSE LET t == MinOf(ts) IN <<t>> \o out_edges(g \ {<<s, t>>}, s)

\* the visitor on the edges from s to the vertices of ts, one after the other
RECURSIVE examine_edges(_, _, _)
examine_edges(st, s, ts) ==
  IF ts = <<>> THEN st
  ELSE examine_edges(Propagate_normal_orientation(st, s, Head(ts)), s, Tail(ts))

\* the records of pts whose flag is b, in the order of pts
RECURSIVE copy_if(_, _, _, _)
copy_if(pts, oriented, b, i) ==
  IF i > Len(pts) THEN <<>>
  ELSE (IF oriented[i - 1] = b THEN <<pts[i]>> ELSE <<>>) \o copy_if(pts, oriented, b, i + 1)

\* oriented_points[] then unoriented_points[], and the length of the first
pack_unoriented_first(pts, oriented) ==
  [points |-> copy_if(pts, oriented, FALSE, 1) \o copy_if(pts, oriented, TRUE, 1),
   first_unoriented_point |-> Len(copy_if(pts, oriented, FALSE, 1))]

pack_oriented_first(pts, oriented) ==
  [points |-> copy_if(pts, oriented, TRUE, 1) \o copy_if(pts, oriented, FALSE, 1),
   first_unoriented_point |-> Len(copy_if(pts, oriented, TRUE, 1))]

----------------------------------------------------------------------------
\* the calls of mst_orient_normals

MaxRuns == 2

MakeRecords(P, N) == [i \in 1 .. Len(P) |-> [id |-> i - 1, point |-> P[i], normal |-> N[i]]]

\* the records with the normals of the indices in S negated
WithNegated(pts, S) ==
  [i \in 1 .. Len(pts) |->
     IF i - 1 \in S THEN [pts[i] EXCEPT !.normal = Neg(pts[i].normal)] ELSE pts[i]]

\* five points of a line: the top one has the fourth among its two nearest,
\* the two nearest of the fourth are below it
P_line == <<<<0, 0, 0>>, <<0, 0, 1>>, <<0, 0, 0 - 1>>, <<0, 0, 4>>, <<0, 0, 9>>>>
N_line == <<<<0, 0, 5>>, <<0, 3, 4>>, <<0, 4, 3>>, <<3, 0, 4>>, <<0, 0, 5>>>>

\* two planes z = 0 and z = 1 of two points each, each point nearest to the one above or below
P_near_planes == <<<<0, 0, 0>>, <<0, 0, 1>>, <<2, 0, 0>>, <<2, 0, 1>>>>
N_four == <<<<0, 0, 5>>, <<0, 0, 5>>, <<0, 0, 5>>, <<0, 0, 5>>>>

\* two planes z = 0 and z = 9 of three points each
P_far_planes == <<<<0, 0, 9>>, <<0, 0, 0>>, <<1, 0, 9>>, <<1, 0, 0>>, <<0, 2, 9>>, <<0, 2, 0>>>>
N_six == <<<<0, 0, 5>>, <<0, 0, 5>>, <<0, 0, 5>>, <<0, 0, 5>>, <<0, 0, 5>>, <<0, 0, 5>>>>

\* four points, two of them on top, with normals at several angles, right angles among them
P_bent == <<<<0, 0, 1>>, <<2, 0, 3>>, <<5, 1, 0>>, <<1, 4, 3>>>>
N_bent == <<<<0, 5, 0>>, <<3, 0, 0 - 4>>, <<4, 0, 3>>, <<5, 0, 0>>>>

\* three points of a line: the normals of the two lower ones are at a right
\* angle to that of the top one, and at an obtuse angle to each other
P_chain == <<<<0, 0, 9>>, <<0, 0, 5>>, <<0, 0, 2>>>>
N_chain == <<<<0, 0, 5>>, <<5, 0, 0>>, <<0 - 4, 3, 0>>>>

\* the same three points: the normal of the top one is at a right angle to Z,
\* no two normals are at a right angle
N_level == <<<<5, 0, 0>>, <<4, 3, 0>>, <<3, 0, 4>>>>

InputRecords ==
  {<<>>}
  \cup {WithNegated(MakeRecords(P_line, N_line), S) : S \in SUBSET {1, 3, 4}}
  \cup {WithNegated(MakeRecords(P_near_planes, N_four), S) : S \in SUBSET (0 .. 3)}
  \cup {WithNegated(MakeRecords(P_far_planes, N_six), S) : S \in SUBSET {0, 1, 3, 4}}
  \cup {WithNegated(MakeRecords(P_bent, N_bent), S) : S \in SUBSET (0 .. 3)}
  \cup {WithNegated(MakeRecords(P_chain, N_chain), S) : S \in SUBSET {2}}
  \cup {WithNegated(MakeRecords(P_chain, N_level), S) : S \in SUBSET {0}}

\* the numbers of neighbors a call may be given
InputK == 1 .. 3

\* what a caller may supply for max_propagation_angle: nothing, an angle of
\* cosine 20/25, an angle over pi/2 (of cosine -15/25)
SuppliedOptions ==
  {[given |-> FALSE, cos_max_propagation_angle |-> 0],
   [given |-> TRUE, cos_max_propagation_angle |-> 20],
   [given |-> TRUE, cos_max_propagation_angle |-> 0 - 15]}

repair_vars == <<tmesh, face_range, edges_to_collapse, edges_to_flip, next_edges_to_collapse,
                 next_edges_to_flip, something_was_done, pc, result, call, input_mesh, iter,
                 mesh_at_iteration_start, initial_sets, operations, undefined, last, tick, np>>

\* there is no call of remove_almost_degenerate_faces
no_repair_call ==
  /\ tmesh = MakeMesh(P_quad_good, E_quad, F_quad)
  /\ face_range = {}
  /\ edges_to_collapse = {}
  /\ edges_to_flip = {}
  /\ next_edges_to_collapse = {}
  /\ next_edges_to_flip = {}
  /\ something_was_done = FALSE
  /\ pc = "idle"
  /\ result = "none"
  /\ call = 0
  /\ input_mesh = tmesh
  /\ iter = 0
  /\ mesh_at_iteration_start = tmesh
  /\ initial_sets = <<{}, {}>>
  /\ operations = 0
  /\ undefined = FALSE
  /\ last = no_step
  /\ tick = FALSE
  /\ np = no_thresholds

OrientInit ==
  /\ no_repair_call
  /\ points \in InputRecords
  /\ k_neighbors \in InputK
  /\ options \in SuppliedOptions
  /\ step = "start"
  /\ source_point = 0 - 1
  /\ it = 0
  /\ neighbors = <<>>
  /\ riemannian_graph = <<>>
  /\ predecessor = <<>>
  /\ in_tree = {}
  /\ mst_graph = {}
  /\ is_oriented = <<>>
  /\ queue = <<>>
  /\ examined = <<>>
  /\ first_unoriented_point = 0 - 1
  /\ input_points = points
  /\ run = 1
  /\ first_run = <<>>
  /\ negated_run = <<>>

\* a precondition of mst_orient_normals does not hold
PreconditionViolated ==
  /\ step = "start"
  /\ ~preconditions_hold(points, k_neighbors)
  /\ step' = "precondition_violated"
  /\ UNCHANGED <<points, k_neighbors, options, source_point, it, neighbors, riemannian_graph,
                 predecessor, in_tree, mst_graph, is_oriented, queue, examined,
                 first_unoriented_point, input_points, run, first_run, negated_run>>
  /\ UNCHANGED repair_vars

\* the preconditions hold; the call of mst_find_source
FindSource ==
  /\ step = "start"
  /\ preconditions_hold(points, k_neighbors)
  /\ LET found == mst_find_source(points)
     IN /\ points' = found.points
        /\ source_point' = found.top_point
  /\ step' = "riemannian"
  /\ UNCHANGED <<k_neighbors, options, it, neighbors, riemannian_graph, predecessor, in_tree,
                 mst_graph, is_oriented, queue, examined, first_unoriented_point,
                 input_points, run, first_run, negated_run>>
  /\ UNCHANGED repair_vars

\* create_riemannian_graph: one turn of the loop that adds the edges; after
\* the last one create_mst_graph allocates the predecessor map
AddEdges ==
  /\ step = "riemannian"
  /\ it < Len(points)
  /\ \E found \in Neighbor_search(points, it, k_neighbors + 1) :
       /\ riemannian_graph' = add_edges(riemannian_graph, points, it, found)
       /\ neighbors' = Append(neighbors, found)
  /\ it' = it + 1
  /\ IF it + 1 = Len(points)
     THEN /\ step' = "mst"
          /\ predecessor' = [v \in Indices(points) |-> v]
          /\ in_tree' = {source_point}
     ELSE UNCHANGED <<step, predecessor, in_tree>>
  /\ UNCHANGED <<points, k_neighbors, options, source_point, mst_graph, is_oriented, queue,
                 examined, first_unoriented_point, input_points, run, first_run, negated_run>>
  /\ UNCHANGED repair_vars

\* prim_minimum_spanning_tree reaches one more vertex, by an edge of least weight
PrimStep ==
  /\ step = "mst"
  /\ \E c \in crossing_edges(riemannian_graph, in_tree) :
       /\ \A d \in crossing_edges(riemannian_graph, in_tree) : c[3] <= d[3]
       /\ predecessor' = [predecessor EXCEPT ![c[2]] = c[1]]
       /\ in_tree' = in_tree \cup {c[2]}
  /\ UNCHANGED <<points, k_neighbors, options, step, source_point, it, neighbors,
                 riemannian_graph, mst_graph, is_oriented, queue, examined,
                 first_unoriented_point, input_points, run, first_run, negated_run>>
  /\ UNCHANGED repair_vars

\* CreateMstGraph that adds every edge in both directions
CreateMstGraph_bidirected ==
  /\ step = "mst"
  /\ crossing_edges(riemannian_graph, in_tree) = {}
  /\ mst_graph' = mst_edges(predecessor)
                     \cup {<<e[2], e[1]>> : e \in mst_edges(predecessor)}
  /\ is_oriented' = [v \in Indices(points) |-> v = source_point]
  /\ queue' = <<source_point>>
  /\ examined' = <<>>
  /\ step' = "bfs"
  /\ UNCHANGED <<points, k_neighbors, options, source_point, it, neighbors, riemannian_graph,
                 predecessor, in_tree, first_unoriented_point, input_points, run, first_run, negated_run>>
  /\ UNCHANGED repair_vars

\* create_mst_graph converts the predecessor map; breadth_first_search begins at the source
CreateMstGraph ==
  /\ step = "mst"
  /\ crossing_edges(riemannian_graph, in_tree) = {}
  /\ mst_graph' = mst_edges(predecessor)
  /\ is_oriented' = [v \in Indices(points) |-> v = source_point]
  /\ queue' = <<source_point>>
  /\ examined' = <<>>
  /\ step' = "bfs"
  /\ UNCHANGED <<points, k_neighbors, options, source_point, it, neighbors, riemannian_graph,
                 predecessor, in_tree, first_unoriented_point, input_points, run, first_run, negated_run>>
  /\ UNCHANGED repair_vars

\* breadth_first_search takes a vertex from the queue and examines its out-edges
VisitVertex ==
  /\ step = "bfs"
  /\ queue # <<>>
  /\ LET s == Head(queue)
         ts == out_edges(mst_graph, s)
         st == examine_edges([points |-> points, is_oriented |-> is_oriented], s, ts)
     IN /\ points' = st.points
        /\ is_oriented' = st.is_oriented
        /\ queue' = Tail(queue) \o ts
        /\ examined' = examined \o
             [i \in 1 .. Len(ts) |->
                LET before == examine_edges([points |-> points, is_oriented |-> is_oriented],
                                            s, SubSeq(ts, 1, i - 1))
                IN [s |-> s, t |-> ts[i],
                    normals_dot |-> Dot(before.points[s + 1].normal,
                                        before.points[ts[i] + 1].normal),
                    source_normal |-> before.points[s + 1].normal,
                    source_normal_is_oriented |-> before.is_oriented[s],
                    target_normal_is_oriented |-> before.is_oriented[ts[i]]]]
  /\ UNCHANGED <<k_neighbors, options, step, source_point, it, neighbors, riemannian_graph,
                 predecessor, in_tree, mst_graph, first_unoriented_point, input_points, run,
                 first_run, negated_run>>
  /\ UNCHANGED repair_vars

\* the range is replaced by oriented_points[], then unoriented_points[]
Pack ==
  /\ step = "bfs"
  /\ queue = <<>>
  /\ LET packed == pack_oriented_first(points, is_oriented)
     IN /\ points' = packed.points
        /\ first_unoriented_point' = packed.first_unoriented_point
  /\ step' = "done"
  /\ UNCHANGED <<k_neighbors, options, source_point, it, neighbors, riemannian_graph,
                 predecessor, in_tree, mst_graph, is_oriented, queue, examined, input_points,
                 run, first_run, negated_run>>
  /\ UNCHANGED repair_vars

\* the ids of the records the call has returned before first_unoriented_point
oriented_ids == {points[i].id : i \in 1 .. first_unoriented_point}

\* the caller calls again on what the call has left, with the same k
OrientAgain ==
  /\ step = "done"
  /\ run < MaxRuns
  /\ negated_run = <<>>
  /\ run' = run + 1
  /\ first_run' = [points |-> points, first_unoriented_point |-> first_unoriented_point,
                   oriented_ids |-> oriented_ids]
  /\ input_points' = points
  /\ step' = "start"
  /\ source_point' = 0 - 1
  /\ it' = 0
  /\ neighbors' = <<>>
  /\ riemannian_graph' = <<>>
  /\ predecessor' = <<>>
  /\ in_tree' = {}
  /\ mst_graph' = {}
  /\ is_oriented' = <<>>
  /\ queue' = <<>>
  /\ examined' = <<>>
  /\ first_unoriented_point' = 0 - 1
  /\ UNCHANGED <<points, k_neighbors, options, negated_run>>
  /\ UNCHANGED repair_vars

\* the number of records whose normals the caller may negate for another call
MaxNegated == 1

\* create_riemannian_graph: the graph after the turns of the edge loop for the
\* records before i, the neighbor search returning found[j + 1] for record j
RECURSIVE graph_of_neighbors(_, _, _)
graph_of_neighbors(pts, found, i) ==
  IF i = 0 THEN <<>>
  ELSE add_edges(graph_of_neighbors(pts, found, i - 1), pts, i - 1, found[i])

\* prim_minimum_spanning_tree may return the map pred on the graph g once it
\* has reached the vertices of tree
RECURSIVE prim_may_return(_, _, _)
prim_may_return(g, tree, pred) ==
  IF crossing_edges(g, tree) = {}
  THEN \A v \in DOMAIN pred : v \notin tree \ {pred[v]} => pred[v] = v
  ELSE \E c \in crossing_edges(g, tree) :
         /\ \A d \in crossing_edges(g, tree) : c[3] <= d[3]
         /\ pred[c[2]] = c[1]
         /\ prim_may_return(g, tree \cup {c[2]}, pred)

\* breadth_first_search: the records and flags once the queue q is empty
RECURSIVE breadth_first_search(_, _, _)
breadth_first_search(st, g, q) ==
  IF q = <<>> THEN st
  ELSE LET ts == out_edges(g, Head(q))
       IN breadth_first_search(examine_edges(st, Head(q), ts), g, Tail(q) \o ts)

\* the whole call of mst_orient_normals on pts, the neighbor search returning
\* found and prim_minimum_spanning_tree returning pred
orient_with(pts, found, pred) ==
  LET top == mst_find_source(pts)
      graph == graph_of_neighbors(top.points, found, Len(pts))
      flags == [v \in Indices(pts) |-> v = top.top_point]
      st == breadth_first_search([points |-> top.points, is_oriented |-> flags],
                                 mst_edges(pred), <<top.top_point>>)
      packed == pack_oriented_first(st.points, st.is_oriented)
  IN [source_point |-> top.top_point, riemannian_graph |-> graph,
      prim_may_return |-> prim_may_return(graph, {top.top_point}, pred),
      normals |-> [v \in Indices(pts) |-> st.points[v + 1].normal],
      is_oriented |-> st.is_oriented,
      points |-> packed.points, first_unoriented_point |-> packed.first_unoriented_point]

\* the caller calls on the records as they were given, with the normals of
\* the records of S negated and with the same k; the neighbor search and
\* prim_minimum_spanning_tree return what they have returned in this call
OrientNegated ==
  /\ step = "done"
  /\ negated_run = <<>>
  /\ \E S \in {T \in SUBSET Indices(input_points) : Cardinality(T) \in 1 .. MaxNegated} :
       negated_run' = [negated |-> S] @@
                      orient_with(WithNegated(input_points, S), neighbors, predecessor)
  /\ UNCHANGED <<points, k_neighbors, options, step, source_point, it, neighbors,
                 riemannian_graph, predecessor, in_tree, mst_graph, is_oriented, queue,
                 examined, first_unoriented_point, input_points, run, first_run>>
  /\ UNCHANGED repair_vars

OrientNext ==
  \/ PreconditionViolated
  \/ FindSource
  \/ AddEdges
  \/ PrimStep
  \/ CreateMstGraph
  \/ VisitVertex
  \/ Pack
  \/ OrientAgain
  \/ OrientNegated

OrientSpec == OrientInit /\ [][OrientNext]_vars

----------------------------------------------------------------------------
\* Properties of mst_orient_normals

\* the record that had the index v when the call began, as it is now
record_of(v) ==
  CHOOSE r \in {points[i] : i \in 1 .. Len(points)} : r.id = input_points[v + 1].id

\* C12: after the call has returned, the normals at the two ends of every
\* edge (s, t) of the MST graph, as the call has left them, have a product >= 0.
C12_TreeEdgesAligned ==
  step = "done" =>
    \A e \in mst_graph : Dot(record_of(e[1]).normal, record_of(e[2]).normal) >= 0

\* the call has returned, and the traversal has negated both the source and
\* the target of some edge of the MST graph
C12_Witness ==
  /\ step = "done"
  /\ \E e \in mst_graph :
       /\ e[1] # source_point
       /\ record_of(e[1]).normal = Neg(input_points[e[1] + 1].normal)
       /\ record_of(e[2]).normal = Neg(input_points[e[2] + 1].normal)

\* the index that the record of id r had when the call began
input_index(r) == CHOOSE v \in Indices(input_points) : input_points[v + 1].id = r

\* C13: the returned range holds the input records, each once; the records
\* flagged is_oriented come first and the others after them, both in their input
\* order; first_unoriented_point is at the first record that is not flagged.
C13_PackedInInputOrder ==
  step = "done" =>
    /\ Len(points) = Len(input_points)
    /\ \A v \in Indices(input_points) :
         \E i \in 1 .. Len(points) :
           /\ points[i].id = input_points[v + 1].id
           /\ points[i].point = input_points[v + 1].point
    /\ \A i \in 1 .. Len(points) :
         (i <= first_unoriented_point) <=> is_oriented[input_index(points[i].id)]
    /\ \A i \in 1 .. Len(points) : \A j \in 1 .. Len(points) :
         (/\ i < j
          /\ is_oriented[input_index(points[i].id)] = is_oriented[input_index(points[j].id)])
           => input_index(points[i].id) < input_index(points[j].id)
    /\ first_unoriented_point = Cardinality({v \in Indices(input_points) : is_oriented[v]})

\* the call has returned a range in another order than the input: two records
\* are oriented, two are not, and one that is not came first in the input
C13_Witness ==
  /\ step = "done"
  /\ first_unoriented_point >= 2
  /\ Len(points) - first_unoriented_point >= 2
  /\ \E u \in Indices(input_points) : \E v \in Indices(input_points) :
       u < v /\ ~is_oriented[u] /\ is_oriented[v]

\* C14: at any time of a call every record has the point it was given, and
\* its normal is the normal it was given or the negation of it, of unit length.
C14_NormalsOnlyNegated ==
  \A v \in Indices(input_points) :
    /\ record_of(v).point = input_points[v + 1].point
    /\ record_of(v).normal \in {input_points[v + 1].normal, Neg(input_points[v + 1].normal)}
    /\ is_unit_normal(record_of(v).normal)

\* the call has returned; mst_find_source has negated the normal of the
\* source, the traversal has negated another one and has left a third as it was
C14_Witness ==
  /\ step = "done"
  /\ record_of(source_point).normal = Neg(input_points[source_point + 1].normal)
  /\ \E e \in mst_graph : record_of(e[2]).normal = Neg(input_points[e[2] + 1].normal)
  /\ \E e \in mst_graph : record_of(e[2]).normal = input_points[e[2] + 1].normal

\* C15: a call on the range that a first call has left returns the same range
\* and the same first_unoriented_point: it negates no normal and orients the
\* same records.
C15_SecondCallChangesNothing ==
  (step = "done" /\ run >= 2) =>
    /\ points = first_run.points
    /\ first_unoriented_point = first_run.first_unoriented_point
    /\ oriented_ids = first_run.oriented_ids

\* C16: the Riemannian graph that create_riemannian_graph has built has the
\* edge (i, j), i < j, exactly when the neighbor search from i has found j or
\* the neighbor search from j has found i.
C16_SymmetricClosure ==
  step \in {"mst", "bfs", "done"} =>
    \A i \in Indices(points) : \A j \in Indices(points) :
      i < j => (<<i, j>> \in DOMAIN riemannian_graph
                  <=> (j \in neighbors[i + 1] \/ i \in neighbors[j + 1]))

\* C17: when mst_find_source has returned, source_point is the first record
\* of the greatest z, its normal has a product >= 0 with +Z, having been
\* negated exactly if the product was negative, and every other record is as given.
C17_SourceIsFirstTopPoint ==
  (step = "riemannian" /\ it = 0) =>
    /\ \A v \in Indices(points) :
         /\ points[v + 1].point[3] <= points[source_point + 1].point[3]
         /\ v < source_point => points[v + 1].point[3] < points[source_point + 1].point[3]
         /\ v # source_point => points[v + 1] = input_points[v + 1]
    /\ Dot(Z, points[source_point + 1].normal) >= 0
    /\ points[source_point + 1].normal =
         IF Dot(Z, input_points[source_point + 1].normal) < 0
         THEN Neg(input_points[source_point + 1].normal)
         ELSE input_points[source_point + 1].normal

\* mst_find_source has returned the first of two records of the greatest z
\* and has negated its normal
C17_Witness ==
  /\ step = "riemannian" /\ it = 0
  /\ \E v \in Indices(points) :
       v > source_point /\ points[v + 1].point[3] = points[source_point + 1].point[3]
  /\ points[source_point + 1].normal = Neg(input_points[source_point + 1].normal)

\* C18: a call with k < 2 or with an empty range ends in a precondition
\* violation, and the range is as it was given: no normal negated, no record moved.
C18_PreconditionBeforeAnyChange ==
  (k_neighbors < 2 \/ Len(input_points) = 0) =>
    /\ step \in {"start", "precondition_violated"}
    /\ points = input_points

\* a call with k < 2 has ended in a precondition violation, on records
\* whose top point has a normal that points down
C18_Witness ==
  /\ step = "precondition_violated"
  /\ k_neighbors < 2
  /\ \E i \in 1 .. Len(points) :
       /\ \A j \in 1 .. Len(points) : points[j].point[3] <= points[i].point[3]
       /\ Dot(Z, points[i].normal) < 0

\* C19: the threshold of the propagation is the max_propagation_angle that the
\* caller supplies (pi/2 when none is supplied): a call with an angle outside
\* (0, pi/2] ends in a precondition violation, and after any other call the
\* target of every MST edge whose normals form a larger angle than the
\* threshold (a smaller cosine) is not oriented.
C19_SuppliedAngleIsThreshold ==
  /\ (options.given /\ options.cos_max_propagation_angle < 0)
       => step \in {"start", "precondition_violated"}
  /\ (step = "done" /\ options.cos_max_propagation_angle >= 0)
       => \A e \in mst_graph :
            Abs(Dot(record_of(e[1]).normal, record_of(e[2]).normal))
                < options.cos_max_propagation_angle
              => ~is_oriented[e[2]]

\* the records given to the call lie in two planes z = const and their
\* normals are +Z or -Z
seam_input ==
  /\ Cardinality({input_points[i].point[3] : i \in 1 .. Len(input_points)}) = 2
  /\ \A i \in 1 .. Len(input_points) : input_points[i].normal \in {Z, Neg(Z)}

same_plane(u, v) == input_points[u + 1].point[3] = input_points[v + 1].point[3]

\* C20: after a call on a seam input every record of the plane of
\* the source has the normal of the source, and the records of the other plane
\* have one common normal.
C20_PlanesAgree ==
  (step = "done" /\ seam_input) =>
    \A u \in Indices(input_points) : \A v \in Indices(input_points) :
      /\ same_plane(u, source_point) => record_of(u).normal = record_of(source_point).normal
      /\ same_plane(u, v) => record_of(u).normal = record_of(v).normal

\* C20, amended: after a call on a seam input every record that the Riemannian
\* graph connects to the source is oriented and has the normal of the source,
\* +Z, on either plane; every other record is not oriented and has the normal
\* it was given.
C20_ConnectedRecordsAgree ==
  (step = "done" /\ seam_input) =>
    \A v \in Indices(input_points) :
      IF v \in in_tree
      THEN is_oriented[v] /\ record_of(v).normal = Z
      ELSE ~is_oriented[v] /\ record_of(v).normal = input_points[v + 1].normal

\* a call on a seam input has returned; the traversal has crossed to the other
\* plane and has negated a normal there
C20_Witness ==
  /\ step = "done" /\ seam_input
  /\ \E v \in in_tree :
       /\ ~same_plane(v, source_point)
       /\ is_oriented[v]
       /\ record_of(v).normal = Neg(input_points[v + 1].normal)

----------------------------------------------------------------------------
\* Properties of the steps of remove_almost_degenerate_faces

\* the face of halfedge(e) is not, or no longer, a needle on halfedge(e)
stale_needle(m, e) ==
  /\ e \in edges(m)
  /\ ~is_border(m, halfedge(e))
  /\ is_badly_shaped(m, face(m, halfedge(e)))[1] # halfedge(e)

\* the step takes e from edges_to_collapse in the needle loop
pops_needle(e) ==
  /\ pc = "collapse"
  /\ e \in edges_to_collapse
  /\ e \notin edges_to_collapse'
  /\ last'.e = e

\* C21: a step of the needle loop that takes an edge e whose face is no longer
\* a needle on halfedge(e) leaves the mesh as it is and adds nothing to the
\* next sets but the fresh result of that face, whether or not e satisfies
\* the link condition.
C21_StaleNeedleOnlyRerouted ==
  [][\A e \in edges_to_collapse :
       (pops_needle(e) /\ stale_needle(tmesh, e))
         => /\ tmesh' = tmesh
            /\ <<next_edges_to_collapse', next_edges_to_flip'>> =
                 record_fresh_result(is_badly_shaped(tmesh, face(tmesh, halfedge(e))),
                                     <<next_edges_to_collapse, next_edges_to_flip>>)]_vars

\* a step inside the needle loop or the cap loop of one iteration
step_inside_phase ==
  /\ pc \in {"collapse", "flip"}
  /\ pc' \in {"collapse", "flip", "abort"}

\* C22: inside the two loops of an iteration edges_to_collapse and
\* edges_to_flip only lose edges, and every step that stays in a loop takes
\* at least one edge out of the set of that loop; so a loop takes at most as
\* many edges as its set held when it began.
C22_CurrentSetsOnlyShrink ==
  [][step_inside_phase
       => /\ edges_to_collapse' \subseteq edges_to_collapse
          /\ edges_to_flip' \subseteq edges_to_flip
          /\ (pc = "collapse" /\ pc' = "collapse")
               => Cardinality(edges_to_collapse') < Cardinality(edges_to_collapse)
          /\ (pc = "flip" /\ pc' = "flip")
               => Cardinality(edges_to_flip') < Cardinality(edges_to_flip)]_vars

\* a loop has recorded an edge for the next iteration and has edges left
C22_Witness ==
  /\ pc \in {"collapse", "flip"}
  /\ last.op \in {"stale needle", "stale cap", "flip", "defer"}
  /\ next_edges_to_collapse \cup next_edges_to_flip # {}
  /\ edges_to_collapse \cup edges_to_flip # {}

\* the step takes e from edges_to_flip in the cap loop
pops_cap(e) ==
  /\ pc = "flip"
  /\ e \in edges_to_flip
  /\ e \notin edges_to_flip'
  /\ last'.e = e

\* e is an inner edge, its face is a cap on halfedge(e), and an edge joins the
\* two vertices opposite to e already
unflippable_cap(m, e) ==
  /\ e \in edges(m)
  /\ ~is_border_edge(m, e)
  /\ is_badly_shaped(m, face(m, halfedge(e)))[2] = halfedge(e)
  /\ halfedge_exists(m, target(m, next(m, halfedge(e))),
                        target(m, next(m, opposite(halfedge(e)))))

\* C23: a step of the cap loop that takes an unflippable cap edge e changes
\* nothing but edges_to_flip, which loses e: the mesh, the other three sets
\* and something_was_done are as they were.
C23_UnflippableOnlyDropped ==
  [][\A e \in edges_to_flip :
       (pops_cap(e) /\ unflippable_cap(tmesh, e))
         => /\ tmesh' = tmesh
            /\ edges_to_flip' = edges_to_flip \ {e}
            /\ UNCHANGED <<edges_to_collapse, next_edges_to_collapse,
                           next_edges_to_flip, something_was_done>>]_vars

\* an unflippable cap edge has just been taken and nothing was done before it
C23_Witness ==
  /\ last.op = "unflippable"
  /\ unflippable_cap(tmesh, last.e)
  /\ last.e \notin edges_to_flip
  /\ ~something_was_done

\* the results of is_badly_shaped for the faces on the two sides of e
results_around(m, e) ==
  {is_badly_shaped(m, face(m, k)) :
     k \in {g \in {halfedge(e), opposite(halfedge(e))} : ~is_border(m, g)}}

\* C24: the step that flips e adds to next_edges_to_flip exactly the cap edges
\* other than e of the two faces now on e, and adds to next_edges_to_collapse
\* e itself exactly when one of these faces is a needle on e; so it never adds
\* e to next_edges_to_flip, nor any other edge than e to next_edges_to_collapse.
C24_RecordedAfterFlip ==
  [][\A e \in edges_to_flip :
       (pops_cap(e) /\ last'.op = "flip")
         => LET around == results_around(tmesh', e)
                caps == {edge(nc[2]) : nc \in {r \in around : r[2] # null_halfedge}}
                needles == {edge(nc[1]) : nc \in {r \in around : r[1] # null_halfedge}}
            IN /\ next_edges_to_flip' = next_edges_to_flip \cup (caps \ {e})
               /\ next_edges_to_collapse' = next_edges_to_collapse \cup (needles \cap {e})
               /\ e \notin next_edges_to_flip' \ next_edges_to_flip
               /\ next_edges_to_collapse' \ next_edges_to_collapse \subseteq {e}]_vars

\* a flip has just left a cap on another edge, which is now in next_edges_to_flip
C24_Witness ==
  /\ last.op = "flip"
  /\ \E nc \in results_around(tmesh, last.e) :
       /\ nc[2] # null_halfedge
       /\ edge(nc[2]) # last.e
       /\ edge(nc[2]) \in next_edges_to_flip

\* e is a border edge with halfedge(e) on its face, and that face is a cap on
\* halfedge(e)
border_cap(m, e) ==
  /\ e \in edges(m)
  /\ is_border_edge(m, e)
  /\ ~is_border(m, halfedge(e))
  /\ is_badly_shaped(m, face(m, halfedge(e)))[2] = halfedge(e)

\* the call was given one triangle, a cap, as mesh and as face range
single_cap_triangle_given ==
  /\ Cardinality(faces(input_mesh)) = 1
  /\ face_range = faces(input_mesh)
  /\ \A f \in faces(input_mesh) : is_badly_shaped(input_mesh, f)[2] # null_halfedge

\* C25, the step: taking a border edge e that is still a cap edge removes the
\* face of e and no other, moves no vertex and changes no other face, takes e
\* and the two other edges of the face out of edges_to_flip, and sets
\* something_was_done.
C25_BorderCapStep ==
  \A e \in edges_to_flip :
    (pops_cap(e) /\ border_cap(tmesh, e))
      => LET h == halfedge(e)
         IN /\ faces(tmesh') = faces(tmesh) \ {face(tmesh, h)}
            /\ tmesh'.point = tmesh.point
            /\ \A g \in Halfedges(tmesh') :
                 /\ g \in Halfedges(tmesh)
                 /\ target(tmesh', g) = target(tmesh, g)
                 /\ ~is_border(tmesh', g) => face(tmesh', g) = face(tmesh, g)
            /\ edges_to_flip' = edges_to_flip \ {e, edge(prev(tmesh, h)), edge(next(tmesh, h))}
            /\ something_was_done'

valid_needle(m, e) ==
  /\ e \in edges(m)
  /\ does_satisfy_link_condition(m, e)
  /\ ~is_border(m, halfedge(e))
  /\ is_badly_shaped(m, face(m, halfedge(e)))[1] = halfedge(e)

\* C26: the step that collapses a valid needle edge e leaves, for each
\* non-border halfedge h of e in the mesh before the step, the edge of prev(h)
\* outside edges_to_flip, edges_to_collapse and next_edges_to_collapse, leaves
\* e outside edges_to_flip, and sets something_was_done.  (The sets are
\* emptied of these edges before collapse_edge, which does not touch them.)
C26_ErasedBeforeCollapse ==
  [][\A e \in edges_to_collapse :
       (pops_needle(e) /\ valid_needle(tmesh, e))
         => /\ \A h \in {halfedge(e), opposite(halfedge(e))} :
                 ~is_border(tmesh, h)
                   => edge(prev(tmesh, h)) \notin
                        (edges_to_flip' \cup edges_to_collapse' \cup next_edges_to_collapse')
            /\ e \notin edges_to_flip'
            /\ tmesh' # tmesh
            /\ something_was_done']_vars

\* the first operation of a call was a collapse, and an edge prev(h) that the
\* initial sets held is in none of the three sets any more
C26_Witness ==
  /\ last.op = "collapse"
  /\ operations = 1
  /\ iter = 1
  /\ something_was_done
  /\ \E h \in {halfedge(last.e), opposite(halfedge(last.e))} :
       /\ ~is_border(input_mesh, h)
       /\ edge(prev(input_mesh, h)) \in initial_sets[1] \cup initial_sets[2]
       /\ edge(prev(input_mesh, h)) \notin
            (edges_to_flip \cup edges_to_collapse \cup next_edges_to_collapse)

\* the edge of h is longer than collapse_threshold, on squares
longer_than_collapse_threshold(m, h) ==
  SqNorm(Sub(m.point[target(m, h)], m.point[source(m, h)]))
    > collapse_threshold * collapse_threshold

\* C27: for every face of the mesh, is_badly_shaped returns at most one
\* halfedge; when is_needle_triangle_face finds a needle the cap result is
\* null, and when that needle is longer than collapse_threshold both results
\* are null.
C27_NeedleAndCapExclusive ==
  \A f \in faces(tmesh) :
    LET nc == is_badly_shaped(tmesh, f)
        needle == is_needle_triangle_face(tmesh, f, needle_threshold)
    IN /\ nc[1] = null_halfedge \/ nc[2] = null_halfedge
       /\ needle # null_halfedge => nc[2] = null_halfedge
       /\ (needle # null_halfedge /\ longer_than_collapse_threshold(tmesh, needle))
            => nc = <<null_halfedge, null_halfedge>>

\* the face range has been classified and held a face that is a needle longer
\* than collapse_threshold and a cap by its angle: nothing was returned for it
C27_Witness ==
  /\ pc = "loop"
  /\ \E f \in face_range \cap faces(tmesh) :
       LET needle == is_needle_triangle_face(tmesh, f, needle_threshold)
       IN /\ needle # null_halfedge
          /\ longer_than_collapse_threshold(tmesh, needle)
          /\ is_cap_triangle_face(tmesh, f) # null_halfedge
          /\ is_badly_shaped(tmesh, f) = <<null_halfedge, null_halfedge>>

\* the needle halfedge of f when f is a needle no longer than collapse_threshold
short_needle(m, f) ==
  LET res == is_needle_triangle_face(m, f, needle_threshold)
  IN IF res # null_halfedge /\ ~longer_than_collapse_threshold(m, res)
     THEN res ELSE null_halfedge

\* the cap halfedge of f when f is no needle of any length
cap_of_no_needle(m, f) ==
  IF is_needle_triangle_face(m, f, needle_threshold) = null_halfedge
  THEN is_cap_triangle_face(m, f) ELSE null_halfedge

\* the two sets have just been filled from face_range
initialized == pc = "loop" /\ iter = 0

\* C28: when the loop over face_range has ended, edges_to_collapse is the set
\* of the needle edges no longer than collapse_threshold of the faces of
\* face_range, and edges_to_flip is the set of the cap edges of the faces of
\* face_range that are no needles; the other faces of the mesh give nothing.
C28_InitialSetsFromRange ==
  initialized =>
    /\ edges_to_collapse =
         {edge(short_needle(tmesh, f)) :
            f \in {g \in face_range : short_needle(tmesh, g) # null_halfedge}}
    /\ edges_to_flip =
         {edge(cap_of_no_needle(tmesh, f)) :
            f \in {g \in face_range : cap_of_no_needle(tmesh, g) # null_halfedge}}

\* both sets were filled, and a needle or cap outside face_range gave no edge
C28_Witness ==
  /\ initialized
  /\ edges_to_collapse \cup edges_to_flip # {}
  /\ \E f \in faces(tmesh) \ face_range :
       \/ /\ short_needle(tmesh, f) # null_halfedge
          /\ edge(short_needle(tmesh, f)) \notin edges_to_collapse
       \/ /\ cap_of_no_needle(tmesh, f) # null_halfedge
          /\ edge(cap_of_no_needle(tmesh, f)) \notin edges_to_flip

\* the edge (s, t) was examined with normals that were not perpendicular, which
\* is what |n_s . n_t| >= cos(M_PI/2.) comes to
examined_within_angle(s, t) ==
  \E i \in 1 .. Len(examined) :
    /\ examined[i].s = s
    /\ examined[i].t = t
    /\ examined[i].normals_dot # 0

\* t is the source, or is joined to it by at most n edges of the MST graph that
\* were all examined within the angle
RECURSIVE path_within_angle(_, _)
path_within_angle(t, n) ==
  IF t = source_point THEN TRUE
  ELSE IF n = 0 THEN FALSE
       ELSE \E e \in mst_graph :
              /\ e[2] = t
              /\ examined_within_angle(e[1], t)
              /\ path_within_angle(e[1], n - 1)

examinations(s, t) ==
  {i \in 1 .. Len(examined) : examined[i].s = s /\ examined[i].t = t}

\* what holds of the edges examined so far, during the traversal and after it
C30_ExaminedInOrder ==
  \A i \in 1 .. Len(examined) :
    LET s == examined[i].s
        t == examined[i].t
    IN /\ <<s, t>> \in mst_graph
       /\ examinations(s, t) = {i}
       /\ t # source_point
       /\ s # source_point => \E j \in 1 .. i - 1 : examined[j].t = s
       /\ record_of(s).normal = examined[i].source_normal
       /\ is_oriented[s] = examined[i].source_normal_is_oriented

\* a step of the traversal changes the normal of no vertex that was the target
\* of an examined edge before it, and neither the normal nor the flag of the source
C30_NegatedAtMostOnce ==
  (step = "bfs" /\ step' = "bfs")
    => /\ \A v \in Indices(points) :
            points'[v + 1].normal # points[v + 1].normal
              => /\ v # source_point
                 /\ \A i \in 1 .. Len(examined) : examined[i].t # v
                 /\ points'[v + 1].normal = Neg(points[v + 1].normal)
       /\ is_oriented'[source_point] = is_oriented[source_point]

\* C30: every edge of the MST graph is examined exactly once, and after the
\* edge into its source; the normal and the flag of the source of an edge are
\* then what they are at the return; a normal is negated at most once, and
\* the normal and the flag of the source of the traversal are never changed.
C30_EachTreeEdgeOnce ==
  /\ [](step \in {"bfs", "done"} => C30_ExaminedInOrder)
  /\ [](step = "done" => \A e \in mst_graph : Cardinality(examinations(e[1], e[2])) = 1)
  /\ [][C30_NegatedAtMostOnce]_vars

\* the call has returned after examining an edge whose source was negated when
\* the edge into it was examined, and whose target was negated too
C30_Witness ==
  /\ step = "done"
  /\ \E i, j \in 1 .. Len(examined) :
       /\ j < i
       /\ examined[j].t = examined[i].s
       /\ examined[j].normals_dot < 0
       /\ examined[i].normals_dot < 0
       /\ examined[i].source_normal = Neg(input_points[examined[i].s + 1].normal)

\* the vertices from which at most n edges of the MST graph lead to v
RECURSIVE ancestors(_, _)
ancestors(v, n) ==
  IF n = 0 THEN {}
  ELSE LET ps == {e[1] : e \in {x \in mst_graph : x[2] = v}}
       IN ps \cup UNION {ancestors(p, n - 1) : p \in ps}

\* create_mst_graph has just returned
mst_graph_created == step = "bfs" /\ examined = <<>> /\ queue = <<source_point>>

\* C31: the graph of create_mst_graph is a tree rooted at the source plus
\* isolated vertices: no edge leads into the source, at most one edge leads
\* into any vertex, and it comes from its predecessor; no two edges join the
\* same vertices in opposite directions; no vertex is its own ancestor; every
\* vertex with an edge is the source or below it; and when the graph is
\* created the source is the only vertex flagged is_oriented.
C31_MstGraphIsRootedTree ==
  /\ step \in {"bfs", "done"} =>
       LET n == Len(input_points)
       IN /\ \A e \in mst_graph : e[2] # source_point /\ e[1] = predecessor[e[2]]
          /\ \A d, e \in mst_graph : d[2] = e[2] => d = e
          /\ \A e \in mst_graph : <<e[2], e[1]>> \notin mst_graph
          /\ \A i \in DOMAIN predecessor :
               predecessor[i] # i => predecessor[predecessor[i]] # i
          /\ \A v \in Indices(input_points) : v \notin ancestors(v, n)
          /\ \A e \in mst_graph : source_point \in ancestors(e[2], n)
  /\ mst_graph_created =>
       \A v \in Indices(input_points) : is_oriented[v] <=> v = source_point

\* a graph has been created with a path of two edges and an isolated vertex
C31_Witness ==
  /\ mst_graph_created
  /\ \E d, e \in mst_graph : d[1] = source_point /\ d[2] = e[1]
  /\ \E v \in Indices(input_points) \ {source_point} :
       \A e \in mst_graph : e[1] # v /\ e[2] # v

\* C32: in every state of a call, the edges held by edges_to_collapse,
\* edges_to_flip, next_edges_to_collapse and next_edges_to_flip are edges of
\* the mesh.
C32_SetsHoldEdgesOfMesh ==
  (edges_to_collapse \cup edges_to_flip \cup next_edges_to_collapse \cup next_edges_to_flip)
    \subseteq edges(tmesh)

\* C33: the face that a step of the driver classifies is a face of the mesh:
\* when an edge e of the mesh is taken from edges_to_flip, and when an edge e
\* that satisfies the link condition is taken from edges_to_collapse and the
\* run goes on, halfedge(e) is not a border halfedge.
C33_ClassifiedFaceExists ==
  [][/\ \A e \in edges_to_flip :
          (pops_cap(e) /\ e \in edges(tmesh)) => ~is_border(tmesh, halfedge(e))
     /\ \A e \in edges_to_collapse :
          (/\ pops_needle(e)
           /\ e \in edges(tmesh)
           /\ does_satisfy_link_condition(tmesh, e)
           /\ pc' # "abort") => ~is_border(tmesh, halfedge(e))]_vars

\* some face on e is a needle on e (k = 1) or a cap on e (k = 2), whichever
\* halfedge of e lies in it
classified_on(m, e, k) ==
  /\ e \in edges(m)
  /\ \E h \in {halfedge(e), opposite(halfedge(e))} :
       /\ ~is_border(m, h)
       /\ is_badly_shaped(m, face(m, h))[k] = h

\* C34: an edge taken from edges_to_collapse while a face on it is a needle on
\* it is not dropped as no longer a needle, and an edge taken from
\* edges_to_flip while a face on it is a cap on it is not dropped as no longer
\* a cap.
C34_StaleOnlyWhenStale ==
  [][/\ \A e \in edges_to_collapse :
          (pops_needle(e) /\ classified_on(tmesh, e, 1)) => last'.op # "stale needle"
     /\ \A e \in edges_to_flip :
          (pops_cap(e) /\ classified_on(tmesh, e, 2)) => last'.op # "stale cap"]_vars

\* the vertices joined to those of S by at most n edges of the Riemannian graph
RECURSIVE connected_to(_, _)
connected_to(S, n) ==
  IF n = 0 THEN S
  ELSE connected_to(S \cup {e[2] : e \in {x \in DOMAIN riemannian_graph : x[1] \in S}}
                      \cup {e[1] : e \in {x \in DOMAIN riemannian_graph : x[2] \in S}},
                    n - 1)

\* the vertices connected to the source in the Riemannian graph
connected_to_source == connected_to({source_point}, Len(input_points))

\* C35: after a call that supplies no angle, a record is returned before
\* first_unoriented_point exactly when the Riemannian graph connects it to the
\* source; a record that is not connected has the normal it was given; and
\* when every record is connected first_unoriented_point is the end of the range.
C35_OrientedIffConnected ==
  (step = "done" /\ ~options.given) =>
    /\ \A v \in Indices(input_points) :
         /\ input_points[v + 1].id \in oriented_ids <=> v \in connected_to_source
         /\ v \notin connected_to_source
              => record_of(v).normal = input_points[v + 1].normal
    /\ connected_to_source = Indices(input_points)
         => first_unoriented_point = Len(points)

\* the call has examined an MST edge whose normals are at a right angle
examined_right_angle == \E i \in 1 .. Len(examined) : examined[i].normals_dot = 0

\* the normal the source has been given is at a right angle to Z
source_normal_level == Dot(Z, input_points[source_point + 1].normal) = 0

\* the Riemannian graph, the source and the MST do not depend on the signs
same_graph_and_tree ==
  /\ negated_run.source_point = source_point
  /\ negated_run.riemannian_graph = riemannian_graph
  /\ negated_run.prim_may_return

\* the records the MST reaches from the source have the same flag in both calls
same_flags == \A v \in in_tree : negated_run.is_oriented[v] = is_oriented[v]

\* the records the MST reaches from the source have the same normal after both calls
same_normals == \A v \in in_tree : negated_run.normals[v] = record_of(v).normal

\* C36 as stated: a call on the same records with some normals negated builds
\* the same Riemannian graph and the same MST, and leaves every record the
\* MST reaches from the source with the same normal and the same flag.
C36_SignsDoNotMatter ==
  negated_run # <<>> => same_graph_and_tree /\ same_flags /\ same_normals

\* C36: a call on the same records with some normals negated builds the same
\* Riemannian graph and the same MST and leaves every record the MST reaches
\* from the source with the same flag; it leaves them with the same normal
\* when the normal of the source is not at a right angle to Z and no examined
\* MST edge has its two normals at a right angle.
C36_SignsDoNotMatterOffRightAngles ==
  negated_run # <<>> =>
    /\ same_graph_and_tree
    /\ same_flags
    /\ (~source_normal_level /\ ~examined_right_angle) => same_normals

\* the calls differ by the sign of a record that is not the source and that
\* has an MST edge to another record; no right angle is met, and all three
\* records are flagged
C36_Witness ==
  /\ negated_run # <<>>
  /\ ~source_normal_level
  /\ ~examined_right_angle
  /\ \E e \in mst_graph :
       /\ e[1] # source_point
       /\ negated_run.negated = {e[1]}
       /\ is_oriented[e[1]] /\ is_oriented[e[2]]

=============================================================================
